---- MODULE Spec2Model ----
(***************************************************************************)
(* Model of the Aquarium Packer builder: Builder.Run assembles the step    *)
(* list, hands it to the multistep runner together with a state bag, and   *)
(* turns the final bag into an error or an artifact.  Every step's Run and *)
(* Cleanup is an action; the polling loops advance one tick per action.    *)
(* Strings the code parses or formats (addresses, versions, ports) are     *)
(* sequences of one-character strings.                                     *)
(***************************************************************************)
EXTENDS Integers, Sequences, FiniteSets, TLC

VARIABLES
    pc,                   \* position of the build: prepare, rejected (Prepare failed, Run is not
                          \* called), loop, run, wait, ssh, image, unwind, dealloc, built, returned
    idx,                  \* index in Steps of the step the runner is at
    ran,                  \* names of the steps whose Run was called, in call order
    cleaned,              \* names of the steps whose Cleanup was called, in call order
    halted,               \* the runner's StateHalted mark in the bag
    cancelMark,           \* the runner's StateCancelled mark in the bag
    ctxDone,              \* the top-level context passed to Builder.Run is cancelled
    gen,                  \* which generation of the steps is built: "v2" or "legacy"
    config,               \* the Config fields Prepare and the steps read (and SSHPort, which
                          \* StepSetupSSH writes)
    prepareErr,           \* the error Builder.Prepare returned: NoError or its message
    api_client,           \* bag slot "api_client" is set
    selected_label,       \* bag slot "selected_label": <<>> or <<label>>
    application,          \* bag slot "application": <<>> or <<app>>
    application_resource, \* bag slot "application_resource": <<>> or <<resource>>
    generated_data,       \* bag slot "generated_data": a map from key to string
    error,                \* bag slot "error": NoError or the recorded error
    ssh_host,             \* bag slot "ssh_host": <<>> or <<host>>
    ssh_port,             \* bag slot "ssh_port": <<>> or <<port>>
    image_results,        \* bag slot "image_results": <<>> or <<result map>>
    lastStatus,           \* StepWaitForAllocation.Run's local lastStatus
    waitPolls,            \* StepWaitForAllocation.Run's polls since the loop began
    resourcePuts,         \* number of state.Put("application_resource", ...) executed
    createReqs,           \* CreateApplication calls made
    deallocReqs,          \* uids passed to DeallocateApplication, in call order
    cleanupPolls,         \* StepCleanup.Cleanup's polls since its loop began
    cleanupLog,           \* the exit path StepCleanup.Cleanup took (its last ui message)
    task,                 \* StepCreateImage.Run's local createdTask: <<>> or <<task uid>>
    imagePolls,           \* StepCreateImage.Run's polls since its loop began
    taskReqs,             \* the tasks passed to CreateApplicationTask, in call order
    retryCount,           \* StepSetupSSH.Run's local retryCount (the polling generation)
    response,             \* what the remote calls of the latest action returned: <<>> if it made none
    result                \* what Builder.Run returned: <<>> or <<[artifact, err]>>

runnerVars == <<pc, idx, ran, cleaned, halted, cancelMark>>
envVars == <<ctxDone, gen, config, prepareErr>>
bagVars == <<api_client, selected_label, application, application_resource,
             generated_data, error, ssh_host, ssh_port, image_results>>
waitVars == <<lastStatus, waitPolls, resourcePuts>>
apiVars == <<createReqs, deallocReqs, cleanupPolls, cleanupLog>>
imageVars == <<task, imagePolls, taskReqs>>
sshVars == <<retryCount>>
vars == <<pc, idx, ran, cleaned, halted, cancelMark, ctxDone, gen, config, prepareErr,
          api_client, selected_label, application, application_resource,
          generated_data, error, ssh_host, ssh_port, image_results,
          lastStatus, waitPolls, resourcePuts,
          createReqs, deallocReqs, cleanupPolls, cleanupLog,
          task, imagePolls, taskReqs, retryCount, response, result>>

----------------------------------------------------------------------------
(* Bounds of the model *)

\* ticks of StepWaitForAllocation's ticker that fit into the allocation timeout
MaxWaitPolls == 3
\* ticks of StepCleanup's ticker that fit into its two-minute timeout
MaxCleanupPolls == 2
\* ticks of StepCreateImage's ticker that fit into its timeout
MaxImagePolls == 2
\* longest label list the fleet service returns
MaxLabels == 3
\* highest label version the fleet service holds
MaxVersion == 3
\* largest connection_retries the operator sets
MaxRetries == 2

\* Builder.Prepare: the connection_retries it fills in when none is given
DefaultConnectionRetries == 60

----------------------------------------------------------------------------
(* Values *)

NoError == "<unset>"
EmptyMap == [k \in {} |-> <<>>]

Reverse(s) == [i \in 1..Len(s) |-> s[Len(s) + 1 - i]]
IsPrefix(s, t) == Len(s) <= Len(t) /\ \A i \in 1..Len(s) : s[i] = t[i]
SeqsUpTo(S, n) == UNION {[1..m -> S] : m \in 0..n}

Digits == <<"0", "1", "2", "3", "4", "5", "6", "7", "8", "9">>
IsDigit(c) == \E d \in 1..10 : Digits[d] = c
DigitVal(c) == (CHOOSE d \in 1..10 : Digits[d] = c) - 1

\* the ids the fleet service hands out
AppUID == <<"a", "1">>
ResUID == <<"r", "1">>
TaskUID == <<"t", "1">>

Statuses == {"NEW", "ELECTED", "ALLOCATED", "ERROR", "DEALLOCATE", "DEALLOCATED",
             "RECALLED", "UNKNOWN"}

----------------------------------------------------------------------------
(* Pure functions of the client and the steps *)

RECURSIVE DigitsValue(_)
DigitsValue(s) ==
    IF s = <<>> THEN 0
    ELSE 10 * DigitsValue(SubSeq(s, 1, Len(s) - 1)) + DigitVal(s[Len(s)])

\* strconv.Atoi: an optional sign followed by at least one digit, nothing else
Atoi(s) ==
    LET signed == s # <<>> /\ s[1] \in {"+", "-"}
        body == IF signed THEN Tail(s) ELSE s
    IN  IF body = <<>> \/ \E i \in 1..Len(body) : ~IsDigit(body[i])
        THEN [ok |-> FALSE, val |-> 0]
        ELSE [ok |-> TRUE,
              val |-> IF signed /\ s[1] = "-" THEN 0 - DigitsValue(body)
                      ELSE DigitsValue(body)]

RECURSIVE NatToDigits(_)
NatToDigits(n) ==
    IF n < 10 THEN <<Digits[n + 1]>>
    ELSE Append(NatToDigits(n \div 10), Digits[(n % 10) + 1])

\* strconv.Itoa
Itoa(n) == IF n < 0 THEN <<"-">> \o NatToDigits(0 - n) ELSE NatToDigits(n)

\* strings.Split(addr, ":")
RECURSIVE Split(_)
Split(s) ==
    IF \A i \in 1..Len(s) : s[i] # ":" THEN <<s>>
    ELSE LET i == CHOOSE j \in 1..Len(s) :
                      s[j] = ":" /\ \A k \in 1..(j - 1) : s[k] # ":"
         IN  <<SubSeq(s, 1, i - 1)>> \o Split(SubSeq(s, i + 1, Len(s)))

ParseSSHAddressFirstTwoFields(addr) ==
    LET parts == Split(addr)
    IN  IF Len(parts) < 2 THEN [ok |-> FALSE, host |-> <<>>, port |-> 0]
        ELSE LET p == Atoi(parts[2])
             IN  IF ~p.ok THEN [ok |-> FALSE, host |-> <<>>, port |-> 0]
                 ELSE [ok |-> TRUE, host |-> parts[1], port |-> p.val]

ParseSSHAddress(addr) ==
    LET parts == Split(addr)
    IN  IF Len(parts) # 2 THEN [ok |-> FALSE, host |-> <<>>, port |-> 0]
        ELSE LET p == Atoi(parts[2])
             IN  IF ~p.ok THEN [ok |-> FALSE, host |-> <<>>, port |-> 0]
                 ELSE [ok |-> TRUE, host |-> parts[1], port |-> p.val]

\* StepFindLabel.Run, no version requested: the first label holding the highest version
RECURSIVE LatestFrom(_, _, _, _)
LatestFrom(labels, i, maxVersion, sel) ==
    IF i > Len(labels) THEN sel
    ELSE IF labels[i].Version > maxVersion
         THEN LatestFrom(labels, i + 1, labels[i].Version, <<labels[i]>>)
         ELSE LatestFrom(labels, i + 1, maxVersion, sel)

RECURSIVE LatestFromLastSeen(_, _, _, _)
LatestFromLastSeen(labels, i, maxVersion, sel) ==
    IF i > Len(labels) THEN sel
    ELSE IF labels[i].Version >= maxVersion
         THEN LatestFromLastSeen(labels, i + 1, labels[i].Version, <<labels[i]>>)
         ELSE LatestFromLastSeen(labels, i + 1, maxVersion, sel)

SelectLatestLastSeen(labels) == LatestFromLastSeen(labels, 1, 0 - 1, <<>>)

SelectLatest(labels) == LatestFrom(labels, 1, 0 - 1, <<>>)

\* StepFindLabel.Run, version requested: the first label holding exactly that version
SelectVersionAtLeast(labels, v) ==
    IF \E i \in 1..Len(labels) : labels[i].Version >= v
    THEN <<labels[CHOOSE i \in 1..Len(labels) :
                     /\ labels[i].Version >= v
                     /\ \A k \in 1..(i - 1) : labels[k].Version < v]>>
    ELSE <<>>

SelectVersion(labels, v) ==
    IF \E i \in 1..Len(labels) : labels[i].Version = v
    THEN <<labels[CHOOSE i \in 1..Len(labels) :
                     /\ labels[i].Version = v
                     /\ \A k \in 1..(i - 1) : labels[k].Version # v]>>
    ELSE <<>>

FindLabelAnyDefinitions(labels, labelVersion) ==
    IF Len(labels) = 0 THEN [err |-> "label not found", label |-> <<>>]
    ELSE IF labelVersion = <<>>
    THEN [err |-> NoError, label |-> SelectLatest(labels)]
    ELSE LET v == Atoi(labelVersion)
         IN  IF ~v.ok THEN [err |-> "invalid version format", label |-> <<>>]
             ELSE LET sel == SelectVersion(labels, v.val)
                  IN  IF sel = <<>> THEN [err |-> "label version not found", label |-> <<>>]
                      ELSE [err |-> NoError, label |-> sel]

FindLabelParsesLeadingDigits(labels, labelVersion) ==
    IF Len(labels) = 0 THEN [err |-> "label not found", label |-> <<>>]
    ELSE LET digits == SelectSeq(labelVersion, IsDigit)
             sel == IF digits = <<>> THEN SelectLatest(labels)
                    ELSE SelectVersion(labels, DigitsValue(digits))
         IN  IF sel = <<>> THEN [err |-> "label version not found", label |-> <<>>]
             ELSE IF sel[1].NDefs = 0 THEN [err |-> "label has no definitions", label |-> <<>>]
             ELSE [err |-> NoError, label |-> sel]

\* StepFindLabel.Run after GetLabels returned labels: the error it records, the label it stores
FindLabel(labels, labelVersion) ==
    IF Len(labels) = 0 THEN [err |-> "label not found", label |-> <<>>]
    ELSE IF labelVersion = <<>>
    THEN LET sel == SelectLatest(labels)
         IN  IF sel = <<>> THEN [err |-> "no suitable label found", label |-> <<>>]
             ELSE IF sel[1].NDefs = 0 THEN [err |-> "label has no definitions", label |-> <<>>]
             ELSE [err |-> NoError, label |-> sel]
    ELSE LET v == Atoi(labelVersion)
         IN  IF ~v.ok THEN [err |-> "invalid version format", label |-> <<>>]
             ELSE LET sel == SelectVersion(labels, v.val)
                  IN  IF sel = <<>> THEN [err |-> "label version not found", label |-> <<>>]
                      ELSE IF sel[1].NDefs = 0
                      THEN [err |-> "label has no definitions", label |-> <<>>]
                      ELSE [err |-> NoError, label |-> sel]

\* StepWaitForAllocation.Run's switch on the polled status
WaitClassV2(st) ==
    CASE st = "ALLOCATED" -> "allocated"
      [] st \in {"ERROR", "DEALLOCATED", "DEALLOCATE"} -> "failed"
      [] st \in {"NEW", "ELECTED"} -> "intermediate"
      [] OTHER -> "unknown"

WaitClassLegacy(st) ==
    CASE st = "ALLOCATED" -> "allocated"
      [] st \in {"ERROR", "DEALLOCATED", "RECALLED"} -> "failed"
      [] st \in {"NEW", "ELECTED", "DEALLOCATE"} -> "intermediate"
      [] OTHER -> "unknown"

\* StepCreateImage.Run's reading of a polled task's result map
ImageClassStrict(res) ==
    IF DOMAIN res = {} THEN "pending"
    ELSE IF "status" \in DOMAIN res /\ res["status"] \in {"success", "completed"}
    THEN "success"
    ELSE IF "status" \in DOMAIN res
    THEN "failed"
    ELSE "assumed"

ImageClass(res) ==
    IF DOMAIN res = {} THEN "pending"
    ELSE IF "status" \in DOMAIN res /\ res["status"] \in {"success", "completed"}
    THEN "success"
    ELSE IF "status" \in DOMAIN res /\ res["status"] \in {"failed", "error"}
    THEN "failed"
    ELSE "assumed"

----------------------------------------------------------------------------
(* What the fleet service and the operator can supply *)

Label(v, n) == [UID |-> <<"l", Digits[v + 1]>>, Version |-> v, NDefs |-> n]
\* one label with definitions for each version, and a second label of the highest version
\* that has none
Labels == {Label(v, 1) : v \in 1..MaxVersion} \cup {Label(MaxVersion, 0)}
LabelLists == SeqsUpTo(Labels, MaxLabels)

LabelVersions == {<<>>, <<"2">>, <<"x">>}

Addresses == {<<"h", ":", "2", "2">>, <<"h">>, <<":", "2">>, <<"h", ":", "x">>,
              <<"h", ":", "2", ":", "2">>, <<>>}

\* the communicator block of the template: nothing set; the port and a username; host,
\* port, username, password and private key
SSHDefaults ==
    {[SSHHost |-> <<>>, SSHPort |-> 0,
      SSHUsername |-> "", SSHPassword |-> "", SSHPrivateKey |-> <<>>],
     [SSHHost |-> <<>>, SSHPort |-> 22,
      SSHUsername |-> "packer", SSHPassword |-> "", SSHPrivateKey |-> <<>>],
     [SSHHost |-> <<"d">>, SSHPort |-> 22,
      SSHUsername |-> "packer", SSHPassword |-> "secret", SSHPrivateKey |-> <<"c">>]}

TaskResults == {EmptyMap, [status |-> "success"], [status |-> "completed"],
                [status |-> "failed"], [status |-> "error"], [status |-> "other"],
                [image |-> "img"], [status |-> "failed", image |-> "img"]}

\* connection_retries as the template gives it: unset (0), negative, or a small count
ConnectionRetriesInputs == {0 - 1, 0, MaxRetries}

\* endpoint, username, password and label_name as the template gives them: each empty or set
RequiredInputs == [Endpoint : {"", "e"}, Username : {"", "u"}, Password : {"", "p"},
                   LabelName : {"", "l"}]

\* application_metadata as the template gives it: none, a key of the operator's own, keys
\* that carry the names of the keys the step adds itself
MetadataInputs == {EmptyMap, [team |-> "qa"], [PACKER_BUILD |-> "false"],
                   [PACKER_BUILDER |-> "mine", team |-> "qa"]}

\* what time.Now().Format(time.RFC3339) gives when the step runs
BuildTimes == {"2025-01-01T00:00:00Z", "2025-01-02T00:00:00Z"}

\* the username, password and key an access carries: none of them, a username alone, a
\* password and a key without a username, all three
Credentials ==
    {[Username |-> "", Password |-> "", Key |-> ""],
     [Username |-> "root", Password |-> "", Key |-> ""],
     [Username |-> "", Password |-> "pw", Key |-> "k"],
     [Username |-> "root", Password |-> "pw", Key |-> "k"]}

\* the access response of the proxy: none yet, or one carrying an address and credentials
Accesses ==
    {<<>>} \cup {<<[Address |-> a, Username |-> c.Username, Password |-> c.Password,
                   Key |-> c.Key]>> : a \in Addresses, c \in Credentials}

----------------------------------------------------------------------------
(* Builder.Run: the step list and the initial state bag *)

StepsProvisionBeforeConnect ==
    <<"StepCleanup", "StepConnectAPI", "StepFindLabel", "StepCreateApplication",
      "StepWaitForAllocation", "StepSetupSSH", "StepProvision", "StepConnectSSH",
      "StepCreateImage">>

StepsCleanupLast ==
    <<"StepConnectAPI", "StepFindLabel", "StepCreateApplication", "StepWaitForAllocation",
      "StepSetupSSH", "StepConnectSSH", "StepProvision", "StepCreateImage", "StepCleanup">>

StepsConnectBeforeSetup ==
    <<"StepCleanup", "StepConnectAPI", "StepFindLabel", "StepCreateApplication",
      "StepWaitForAllocation", "StepConnectSSH", "StepSetupSSH", "StepProvision",
      "StepCreateImage">>

Steps == <<"StepCleanup", "StepConnectAPI", "StepFindLabel", "StepCreateApplication",
           "StepWaitForAllocation", "StepSetupSSH", "StepConnectSSH", "StepProvision",
           "StepCreateImage">>

\* Builder.Prepare: a connection_retries that is not positive becomes the default
Prepare(connectionRetries) ==
    IF connectionRetries <= 0 THEN DefaultConnectionRetries ELSE connectionRetries

\* Builder.Prepare: the required fields, checked in this order
PrepareErrorPasswordUnchecked(c) ==
    IF c.Endpoint = "" THEN "endpoint is required"
    ELSE IF c.Username = "" THEN "username is required"
    ELSE IF c.LabelName = "" THEN "label_name is required"
    ELSE NoError

PrepareError(c) ==
    IF c.Endpoint = "" THEN "endpoint is required"
    ELSE IF c.Username = "" THEN "username is required"
    ELSE IF c.Password = "" THEN "password is required"
    ELSE IF c.LabelName = "" THEN "label_name is required"
    ELSE NoError

\* the template's configuration is decoded; Prepare is about to be called
Init ==
    /\ pc = "prepare"
    /\ idx = 1
    /\ ran = <<>>
    /\ cleaned = <<>>
    /\ halted = FALSE
    /\ cancelMark = FALSE
    /\ ctxDone = FALSE
    /\ gen \in {"v2", "legacy"}
    /\ \E lv \in LabelVersions, d \in SSHDefaults, n \in ConnectionRetriesInputs,
          r \in RequiredInputs :
           config = [LabelVersion |-> lv, SSHHost |-> d.SSHHost, SSHPort |-> d.SSHPort,
                     SSHUsername |-> d.SSHUsername, SSHPassword |-> d.SSHPassword,
                     SSHPrivateKey |-> d.SSHPrivateKey,
                     ConnectionRetries |-> n, Endpoint |-> r.Endpoint,
                     Username |-> r.Username, Password |-> r.Password,
                     LabelName |-> r.LabelName]
    /\ prepareErr = NoError
    /\ api_client = FALSE
    /\ selected_label = <<>>
    /\ application = <<>>
    /\ application_resource = <<>>
    /\ generated_data = EmptyMap
    /\ error = NoError
    /\ ssh_host = <<>>
    /\ ssh_port = <<>>
    /\ image_results = <<>>
    /\ lastStatus = ""
    /\ waitPolls = 0
    /\ resourcePuts = 0
    /\ createReqs = 0
    /\ deallocReqs = <<>>
    /\ cleanupPolls = 0
    /\ cleanupLog = ""
    /\ task = <<>>
    /\ imagePolls = 0
    /\ taskReqs = <<>>
    /\ retryCount = 0
    /\ response = <<>>
    /\ result = <<>>

\* Builder.Prepare: the defaults, then the required fields; Run is called only with a
\* configuration Prepare accepted
Builder_Prepare ==
    /\ pc = "prepare"
    /\ config' = [config EXCEPT !.ConnectionRetries = Prepare(@)]
    /\ prepareErr' = PrepareError(config)
    /\ pc' = IF prepareErr' = NoError THEN "loop" ELSE "rejected"
    /\ UNCHANGED <<idx, ran, cleaned, halted, cancelMark, ctxDone, gen, bagVars, waitVars,
                   apiVars, imageVars, sshVars, response, result>>

MapPutAlone(m, k, v) == [x \in {k} |-> v]

\* generatedData[k] = v
MapPut(m, k, v) == [x \in DOMAIN m \cup {k} |-> IF x = k THEN v ELSE m[x]]

----------------------------------------------------------------------------
(* The multistep runner *)

\* the step whose Run is executing
Running(name) == pc = "run" /\ idx \in 1..Len(Steps) /\ Steps[idx] = name

\* the step whose Cleanup is due: the latest step that ran and is not yet cleaned up
CleanupDue(name) ==
    /\ pc = "unwind"
    /\ Len(cleaned) < Len(ran)
    /\ ran[Len(ran) - Len(cleaned)] = name

\* the runner after step.Run returned action: stop on the cancel mark, stop and mark on
\* halt, go on to the next step otherwise
StepReturns(action) ==
    IF cancelMark THEN pc' = "unwind" /\ UNCHANGED <<idx, halted>>
    ELSE IF action = "halt" THEN pc' = "unwind" /\ halted' = TRUE /\ UNCHANGED idx
    ELSE pc' = "loop" /\ idx' = idx + 1 /\ UNCHANGED halted

\* the head of the runner's loop: a cancelled context stops it, otherwise the next step's
\* Run is called
Runner_Next ==
    /\ pc = "loop"
    /\ idx <= Len(Steps)
    /\ IF ctxDone
       THEN pc' = "unwind" /\ cancelMark' = TRUE /\ UNCHANGED ran
       ELSE pc' = "run" /\ ran' = Append(ran, Steps[idx]) /\ UNCHANGED cancelMark
    /\ response' = <<>>
    /\ UNCHANGED <<idx, cleaned, halted, envVars, bagVars, waitVars, apiVars, imageVars,
                   result, sshVars>>

\* every step returned continue
Runner_End ==
    /\ pc = "loop"
    /\ idx = Len(Steps) + 1
    /\ pc' = "unwind"
    /\ response' = <<>>
    /\ UNCHANGED <<idx, ran, cleaned, halted, cancelMark, envVars, bagVars, waitVars,
                   apiVars, imageVars, result, sshVars>>

\* the runner's watcher marks the bag as soon as it sees the context cancelled
Runner_WatchCancel ==
    /\ ctxDone
    /\ ~cancelMark
    /\ pc \notin {"built", "returned"}
    /\ cancelMark' = TRUE
    /\ response' = <<>>
    /\ UNCHANGED <<pc, idx, ran, cleaned, halted, envVars, bagVars, waitVars, apiVars,
                   imageVars, result, sshVars>>

\* all the cleanups have run: runner.Run returns
Runner_Return ==
    /\ pc = "unwind"
    /\ Len(cleaned) = Len(ran)
    /\ pc' = "built"
    /\ response' = <<>>
    /\ UNCHANGED <<idx, ran, cleaned, halted, cancelMark, envVars, bagVars, waitVars,
                   apiVars, imageVars, result, sshVars>>

\* the caller cancels the context given to Builder.Run
Cancel ==
    /\ ~ctxDone
    /\ pc \notin {"prepare", "rejected", "built", "returned"}
    /\ ctxDone' = TRUE
    /\ response' = <<>>
    /\ UNCHANGED <<runnerVars, gen, config, prepareErr, bagVars, waitVars, apiVars, imageVars,
                   result,
                   sshVars>>

\* what Builder.Run returns: the recorded error alone, or an artifact holding the
\* generated data
ArtifactDespiteError == [artifact |-> <<[generated_data |-> generated_data]>>, err |-> error]

ArtifactOrError ==
    IF error # NoError
    THEN [artifact |-> <<>>, err |-> error]
    ELSE [artifact |-> <<[generated_data |-> generated_data]>>, err |-> NoError]

\* Builder.Run after runner.Run returned
Builder_Result ==
    /\ pc = "built"
    /\ result' = <<ArtifactOrError>>
    /\ pc' = "returned"
    /\ response' = <<>>
    /\ UNCHANGED <<idx, ran, cleaned, halted, cancelMark, envVars, bagVars, waitVars,
                   apiVars, imageVars, sshVars>>

----------------------------------------------------------------------------
(* The steps before the allocation exists *)

StepCleanup_RunDeallocates ==
    /\ Running("StepCleanup")
    /\ StepReturns("continue")
    /\ deallocReqs' = Append(deallocReqs, AppUID)
    /\ response' = [by |-> "StepCleanup", call |-> "DeallocateApplication", err |-> FALSE]
    /\ UNCHANGED <<ran, cleaned, cancelMark, envVars, bagVars, waitVars, createReqs,
                   cleanupPolls, cleanupLog, imageVars, result, sshVars>>

StepCleanup_Run ==
    /\ Running("StepCleanup")
    /\ StepReturns("continue")
    /\ response' = <<>>
    /\ UNCHANGED <<ran, cleaned, cancelMark, envVars, bagVars, waitVars, apiVars, imageVars,
                   result, sshVars>>

\* how the probe of the current user ends.  GetCurrentUser gets the step's context and
\* fails once the context is cancelled; the REST client's request takes no context, and
\* its answer is read by status: 401, another status that is not 200, or 200
Probes ==
    IF gen = "v2"
    THEN IF ctxDone THEN {"error"} ELSE {"ok", "error"}
    ELSE {"ok", "error", "unauthorized", "status"}

\* the error the step records for a probe that did not succeed
ConnectError(probe) ==
    CASE probe = "error" -> "API connection failed"
      [] probe = "unauthorized" -> "authentication failed"
      [] probe = "status" -> "API connection test failed"
      [] OTHER -> NoError

\* the stream of change notifications the step asks for once the client is stored: the
\* request takes the step's context, and no step reads the stream
Subscriptions == IF gen = "v2" THEN (IF ctxDone THEN {FALSE} ELSE BOOLEAN) ELSE {FALSE}

StepConnectAPI_RunStoresFirst ==
    /\ Running("StepConnectAPI")
    /\ \E probe \in Probes :
           /\ response' = [by |-> "StepConnectAPI", call |-> "GetCurrentUser",
                            err |-> probe # "ok", probe |-> probe, subscribed |-> FALSE]
           /\ api_client' = TRUE
           /\ IF probe # "ok"
              THEN /\ error' = ConnectError(probe)
                   /\ StepReturns("halt")
              ELSE /\ StepReturns("continue")
                   /\ UNCHANGED error
    /\ UNCHANGED <<ran, cleaned, cancelMark, envVars, selected_label, application,
                   application_resource, generated_data, ssh_host, ssh_port, image_results,
                   waitVars, apiVars, imageVars, result, sshVars>>

StepConnectAPI_SubscribeRequired ==
    /\ Running("StepConnectAPI")
    /\ \E probe \in Probes, subscribed \in Subscriptions :
           /\ response' = [by |-> "StepConnectAPI", call |-> "GetCurrentUser",
                            err |-> probe # "ok", probe |-> probe,
                            subscribed |-> probe = "ok" /\ subscribed]
           /\ IF probe # "ok"
              THEN /\ error' = ConnectError(probe)
                   /\ StepReturns("halt")
                   /\ UNCHANGED api_client
              ELSE /\ api_client' = TRUE
                   /\ IF subscribed
                      THEN StepReturns("continue") /\ UNCHANGED error
                      ELSE StepReturns("halt") /\ error' = "subscription failed"
    /\ UNCHANGED <<ran, cleaned, cancelMark, envVars, selected_label, application,
                   application_resource, generated_data, ssh_host, ssh_port, image_results,
                   waitVars, apiVars, imageVars, result, sshVars>>

StepConnectAPI_Run ==
    /\ Running("StepConnectAPI")
    /\ \E probe \in Probes, subscribed \in Subscriptions :
           /\ response' = [by |-> "StepConnectAPI", call |-> "GetCurrentUser",
                            err |-> probe # "ok", probe |-> probe,
                            subscribed |-> probe = "ok" /\ subscribed]
           /\ IF probe # "ok"
              THEN /\ error' = ConnectError(probe)
                   /\ StepReturns("halt")
                   /\ UNCHANGED api_client
              ELSE /\ api_client' = TRUE
                   /\ StepReturns("continue")
                   /\ UNCHANGED error
    /\ UNCHANGED <<ran, cleaned, cancelMark, envVars, selected_label, application,
                   application_resource, generated_data, ssh_host, ssh_port, image_results,
                   waitVars, apiVars, imageVars, result, sshVars>>

\* GetLabels takes no context here
StepFindLabel_Run ==
    /\ Running("StepFindLabel")
    /\ \E apiErr \in BOOLEAN, labels \in LabelLists :
           LET found == FindLabel(labels, config.LabelVersion)
           IN  /\ response' = [by |-> "StepFindLabel", call |-> "GetLabels", err |-> apiErr,
                                labels |-> IF apiErr THEN <<>> ELSE labels]
               /\ IF apiErr
                  THEN /\ error' = "label retrieval failed"
                       /\ StepReturns("halt")
                       /\ UNCHANGED selected_label
                  ELSE IF found.err # NoError
                  THEN /\ error' = found.err
                       /\ StepReturns("halt")
                       /\ UNCHANGED selected_label
                  ELSE /\ selected_label' = found.label
                       /\ StepReturns("continue")
                       /\ UNCHANGED error
    /\ UNCHANGED <<ran, cleaned, cancelMark, envVars, api_client, application,
                   application_resource, generated_data, ssh_host, ssh_port, image_results,
                   waitVars, apiVars, imageVars, result, sshVars>>

\* the application the fleet service creates on the n-th create request
CreatedApp(n, labelUID) == [UID |-> <<"a", Digits[n + 1]>>, LabelUID |-> labelUID]

StepCreateApplication_Retrying ==
    /\ Running("StepCreateApplication")
    /\ \E apiErr \in (IF ctxDone THEN {TRUE} ELSE BOOLEAN) :
           /\ response' = [by |-> "StepCreateApplication", call |-> "CreateApplication",
                            err |-> apiErr]
           /\ IF apiErr
              THEN /\ createReqs' = createReqs + 2
                   /\ error' = "application creation failed"
                   /\ StepReturns("halt")
                   /\ UNCHANGED <<application, generated_data>>
              ELSE /\ createReqs' = createReqs + 1
                   /\ application' = <<CreatedApp(createReqs + 1, selected_label[1].UID)>>
                   /\ generated_data' =
                          MapPut(generated_data, "ApplicationUID", application'[1].UID)
                   /\ StepReturns("continue")
                   /\ UNCHANGED error
    /\ UNCHANGED <<ran, cleaned, cancelMark, envVars, api_client, selected_label,
                   application_resource, ssh_host, ssh_port, image_results, waitVars,
                   deallocReqs, cleanupPolls, cleanupLog, imageVars, result, sshVars>>

\* the application the step asks for: the label's UID, and the metadata of the template
\* with the step's own three keys written over them
ApplicationRequestUserWins(labelUID, userMetadata, now) ==
    LET own == [PACKER_BUILD |-> "true", PACKER_BUILDER |-> "aquarium",
                PACKER_BUILD_TIME |-> now]
    IN  [LabelUID |-> labelUID,
         Metadata |-> [k \in DOMAIN own \cup DOMAIN userMetadata |->
                          IF k \in DOMAIN userMetadata THEN userMetadata[k] ELSE own[k]]]

ApplicationRequest(labelUID, userMetadata, now) ==
    [LabelUID |-> labelUID,
     Metadata |-> MapPut(MapPut(MapPut(userMetadata, "PACKER_BUILD", "true"),
                                "PACKER_BUILDER", "aquarium"),
                         "PACKER_BUILD_TIME", now)]

StepCreateApplication_Run ==
    /\ Running("StepCreateApplication")
    /\ \E apiErr \in (IF ctxDone THEN {TRUE} ELSE BOOLEAN), userMetadata \in MetadataInputs,
          now \in BuildTimes :
           /\ createReqs' = createReqs + 1
           /\ response' = [by |-> "StepCreateApplication", call |-> "CreateApplication",
                            err |-> apiErr, userMetadata |-> userMetadata, now |-> now,
                            request |-> ApplicationRequest(selected_label[1].UID,
                                                           userMetadata, now)]
           /\ IF apiErr
              THEN /\ error' = "application creation failed"
                   /\ StepReturns("halt")
                   /\ UNCHANGED <<application, generated_data>>
              ELSE /\ application' = <<CreatedApp(createReqs + 1, selected_label[1].UID)>>
                   /\ generated_data' =
                          MapPut(generated_data, "ApplicationUID", application'[1].UID)
                   /\ StepReturns("continue")
                   /\ UNCHANGED error
    /\ UNCHANGED <<ran, cleaned, cancelMark, envVars, api_client, selected_label,
                   application_resource, ssh_host, ssh_port, image_results, waitVars,
                   deallocReqs, cleanupPolls, cleanupLog, imageVars, result, sshVars>>

----------------------------------------------------------------------------
(* StepWaitForAllocation *)

\* the resource the fleet service holds for an allocated application
Resource(appUID) == [UID |-> ResUID, ApplicationUID |-> appUID]

\* the switch of the generation that is built
WaitClassElectedIsReady(st) ==
    IF st = "ELECTED" THEN "allocated"
    ELSE IF gen = "v2" THEN WaitClassV2(st) ELSE WaitClassLegacy(st)

WaitClassUnknownFails(st) ==
    LET class == IF gen = "v2" THEN WaitClassV2(st) ELSE WaitClassLegacy(st)
    IN  IF class = "unknown" THEN "failed" ELSE class

WaitClass(st) == IF gen = "v2" THEN WaitClassV2(st) ELSE WaitClassLegacy(st)

\* only the v2 client calls take the step's context
WaitCallCancelled == gen = "v2" /\ ctxDone

\* Run up to its loop
StepWaitForAllocation_Run ==
    /\ Running("StepWaitForAllocation")
    /\ pc' = "wait"
    /\ lastStatus' = ""
    /\ waitPolls' = 0
    /\ response' = <<>>
    /\ UNCHANGED <<idx, ran, cleaned, halted, cancelMark, envVars, bagVars, resourcePuts,
                   apiVars, imageVars, result, sshVars>>

\* Run returns: its locals are gone
WaitLeaves == lastStatus' = "" /\ waitPolls' = 0

\* case <-timeoutCtx.Done(): the allocation timeout elapsed or the context was cancelled
StepWaitForAllocation_ContinuesOnTimeout ==
    /\ pc = "wait"
    /\ error' = "allocation timeout"
    /\ StepReturns("continue")
    /\ WaitLeaves
    /\ response' = <<>>
    /\ UNCHANGED <<ran, cleaned, cancelMark, envVars, api_client, selected_label,
                   application, application_resource, generated_data, ssh_host, ssh_port,
                   image_results, resourcePuts, apiVars, imageVars, result, sshVars>>

StepWaitForAllocation_Timeout ==
    /\ pc = "wait"
    /\ error' = "allocation timeout"
    /\ StepReturns("halt")
    /\ WaitLeaves
    /\ response' = <<>>
    /\ UNCHANGED <<ran, cleaned, cancelMark, envVars, api_client, selected_label,
                   application, application_resource, generated_data, ssh_host, ssh_port,
                   image_results, resourcePuts, apiVars, imageVars, result, sshVars>>

\* the loop goes round again after a poll that saw status st
WaitContinues(st) ==
    /\ lastStatus' = st
    /\ waitPolls' = waitPolls + 1
    /\ UNCHANGED <<pc, idx, halted, error, resourcePuts, application_resource,
                   generated_data>>

\* a poll ends the step with an error
WaitRetries(err) ==
    /\ waitPolls' = waitPolls + 1
    /\ UNCHANGED <<pc, idx, halted, error, lastStatus, resourcePuts, application_resource,
                   generated_data>>

WaitFailsStoringResource(err) ==
    /\ error' = err
    /\ StepReturns("halt")
    /\ WaitLeaves
    /\ application_resource' = <<Resource(application[1].UID)>>
    /\ UNCHANGED <<resourcePuts, generated_data>>

WaitFails(err) ==
    /\ error' = err
    /\ StepReturns("halt")
    /\ WaitLeaves
    /\ UNCHANGED <<resourcePuts, application_resource, generated_data>>

\* if resource == nil: the status is ALLOCATED but the resource is not there yet
ResourceNotReadyFails(st) == WaitFails("application resource not found")

ResourceNotReady(st) == WaitContinues(st)

\* what a tick's calls returned: the state call, and the resource call it makes when the
\* status is ALLOCATED
WaitResponse(apiErr, st, resErr, res) ==
    LET looked == ~apiErr /\ WaitClass(st) = "allocated"
    IN  [by |-> "StepWaitForAllocation", call |-> "GetApplicationState", err |-> apiErr,
         status |-> IF apiErr THEN "" ELSE st,
         prevStatus |-> lastStatus,
         tick |-> waitPolls + 1,
         resCalled |-> looked,
         resErr |-> looked /\ resErr,
         res |-> IF looked /\ ~resErr THEN res ELSE <<>>]

\* case <-ticker.C: one poll of the application's state
StepWaitForAllocation_Tick ==
    /\ pc = "wait"
    /\ waitPolls < MaxWaitPolls
    /\ \E apiErr \in (IF WaitCallCancelled THEN {TRUE} ELSE BOOLEAN), st \in Statuses,
          resErr \in (IF WaitCallCancelled THEN {TRUE} ELSE BOOLEAN),
          res \in {<<>>, <<Resource(application[1].UID)>>} :
           /\ response' = WaitResponse(apiErr, st, resErr, res)
           /\ IF apiErr
              THEN WaitFails("failed to get application state")
              ELSE CASE WaitClass(st) = "allocated" ->
                          IF resErr
                          THEN WaitFails("failed to get application resource")
                          ELSE IF res = <<>>
                          THEN ResourceNotReady(st)
                          ELSE /\ application_resource' = res
                               /\ resourcePuts' = resourcePuts + 1
                               /\ generated_data' =
                                      MapPut(generated_data, "ResourceUID", res[1].UID)
                               /\ StepReturns("continue")
                               /\ WaitLeaves
                               /\ UNCHANGED error
                     [] WaitClass(st) = "failed" -> WaitFails("application failed")
                     [] OTHER -> WaitContinues(st)
    /\ UNCHANGED <<ran, cleaned, cancelMark, envVars, api_client, selected_label,
                   application, ssh_host, ssh_port, image_results, apiVars, imageVars,
                   result, sshVars>>

----------------------------------------------------------------------------
(* StepSetupSSH and the two steps of the SDK that follow it *)

\* the host and port the step settles on: those of the address, or the communicator's
\* when the address does not parse
Endpoint(addr) ==
    LET parsed == ParseSSHAddress(addr)
    IN  [host |-> IF parsed.ok THEN parsed.host ELSE config.SSHHost,
         port |-> IF parsed.ok THEN parsed.port ELSE config.SSHPort]

\* access.GetAddress(): the getter of a nil message gives the empty string
GetAddress(access) == IF access = <<>> THEN <<>> ELSE access[1].Address

GetUsername(access) == IF access = <<>> THEN "" ELSE access[1].Username

GetPassword(access) == IF access = <<>> THEN "" ELSE access[1].Password

GetKey(access) == IF access = <<>> THEN "" ELSE access[1].Key

\* []byte(key): the bytes of the string
Bytes(key) == IF key = "" THEN <<>> ELSE <<key>>

\* the communicator's settings after the step: username, password and key of the access
\* where it carries them, and the port the step settled on
CommunicatorAlwaysAssigned(access, port) ==
    [config EXCEPT !.SSHUsername = GetUsername(access),
                   !.SSHPassword = GetPassword(access),
                   !.SSHPrivateKey = Bytes(GetKey(access)),
                   !.SSHPort = port]

Communicator(access, port) ==
    [config EXCEPT !.SSHUsername = IF GetUsername(access) # "" THEN GetUsername(access) ELSE @,
                   !.SSHPassword = IF GetPassword(access) # "" THEN GetPassword(access) ELSE @,
                   !.SSHPrivateKey = IF GetKey(access) # "" THEN Bytes(GetKey(access)) ELSE @,
                   !.SSHPort = port]

\* v2: one access request, no loop
StepSetupSSH_Run ==
    /\ Running("StepSetupSSH")
    /\ gen = "v2"
    /\ \E apiErr \in (IF ctxDone THEN {TRUE} ELSE BOOLEAN), access \in Accesses :
           /\ response' = [by |-> "StepSetupSSH", call |-> "GetApplicationResourceAccess",
                            err |-> apiErr, access |-> IF apiErr THEN <<>> ELSE access,
                            nil |-> ~apiErr /\ access = <<>>, attempt |-> 1]
           /\ IF apiErr
              THEN /\ error' = "failed to get SSH access"
                   /\ StepReturns("halt")
                   /\ UNCHANGED <<config, ssh_host, ssh_port, generated_data>>
              ELSE LET ep == Endpoint(GetAddress(access))
                   IN  /\ config' = Communicator(access, ep.port)
                       /\ ssh_host' = <<ep.host>>
                       /\ ssh_port' = <<ep.port>>
                       /\ generated_data' =
                              MapPut(MapPut(generated_data, "SSHHost", ep.host),
                                     "SSHPort", Itoa(ep.port))
                       /\ StepReturns("continue")
                       /\ UNCHANGED error
    /\ UNCHANGED <<ran, cleaned, cancelMark, ctxDone, gen, prepareErr, api_client,
                   selected_label,
                   application, application_resource, image_results, waitVars, apiVars,
                   imageVars, result, sshVars>>

\* legacy: Run up to its polling loop
StepSetupSSHPoll_Run ==
    /\ Running("StepSetupSSH")
    /\ gen = "legacy"
    /\ pc' = "ssh"
    /\ retryCount' = 0
    /\ response' = <<>>
    /\ UNCHANGED <<idx, ran, cleaned, halted, cancelMark, envVars, bagVars, waitVars,
                   apiVars, imageVars, result>>

\* Run returns: its locals are gone
SSHLeaves == retryCount' = 0

\* retryCount++; if retryCount > maxRetries
RetryLimitOffByOne == retryCount > config.ConnectionRetries

RetryLimitReached == retryCount + 1 > config.ConnectionRetries

\* case <-timeoutCtx.Done(): the connection timeout elapsed or the context was cancelled
StepSetupSSHPoll_Timeout ==
    /\ pc = "ssh"
    /\ error' = "SSH access availability timeout"
    /\ StepReturns("halt")
    /\ SSHLeaves
    /\ response' = <<>>
    /\ UNCHANGED <<ran, cleaned, cancelMark, envVars, api_client, selected_label,
                   application, application_resource, generated_data, ssh_host, ssh_port,
                   image_results, waitVars, apiVars, imageVars, result>>

\* case <-ticker.C: the retry count, then one access request; the call takes no context
StepSetupSSHPoll_Tick ==
    /\ pc = "ssh"
    /\ IF RetryLimitReached
       THEN /\ error' = "SSH access availability retry limit exceeded"
            /\ StepReturns("halt")
            /\ SSHLeaves
            /\ response' = <<>>
            /\ UNCHANGED <<ssh_host, ssh_port, generated_data>>
       ELSE \E apiErr \in BOOLEAN, access \in Accesses :
                /\ response' = [by |-> "StepSetupSSH",
                                 call |-> "GetApplicationResourceAccess",
                                 err |-> apiErr, access |-> IF apiErr THEN <<>> ELSE access,
                                 nil |-> ~apiErr /\ access = <<>>,
                                 attempt |-> retryCount + 1]
                /\ IF apiErr
                   THEN /\ error' = "failed to get SSH access credentials"
                        /\ StepReturns("halt")
                        /\ SSHLeaves
                        /\ UNCHANGED <<ssh_host, ssh_port, generated_data>>
                   ELSE IF access = <<>>
                   THEN /\ retryCount' = retryCount + 1
                        /\ UNCHANGED <<pc, idx, halted, error, ssh_host, ssh_port,
                                       generated_data>>
                   ELSE LET ep == Endpoint(access[1].Address)
                        IN  /\ ssh_host' = <<ep.host>>
                            /\ ssh_port' = <<ep.port>>
                            /\ generated_data' =
                                   MapPut(MapPut(generated_data, "SSHHost", ep.host),
                                          "SSHPort", Itoa(ep.port))
                            /\ StepReturns("continue")
                            /\ SSHLeaves
                            /\ UNCHANGED error
    /\ UNCHANGED <<ran, cleaned, cancelMark, envVars, api_client, selected_label,
                   application, application_resource, image_results, waitVars, apiVars,
                   imageVars, result>>

\* the Host function Builder.Run gives the connector: the bag's ssh_host, an error if the
\* slot is missing
host == IF ssh_host = <<>> THEN [ok |-> FALSE, val |-> <<>>]
        ELSE [ok |-> TRUE, val |-> ssh_host[1]]

\* communicator.StepConnectSSH: connects to host, or records an error and halts
StepConnectSSH_Run ==
    /\ Running("StepConnectSSH")
    /\ \E ok \in (IF host.ok THEN BOOLEAN ELSE {FALSE}) :
           IF ok THEN StepReturns("continue") /\ UNCHANGED error
           ELSE error' = "ssh connect failed" /\ StepReturns("halt")
    /\ response' = <<>>
    /\ UNCHANGED <<ran, cleaned, cancelMark, envVars, api_client, selected_label,
                   application, application_resource, generated_data, ssh_host, ssh_port,
                   image_results, waitVars, apiVars, imageVars, result, sshVars>>

\* commonsteps.StepProvision: the hook succeeds, or its error is recorded and it halts
StepProvision_Run ==
    /\ Running("StepProvision")
    /\ \E ok \in BOOLEAN :
           IF ok THEN StepReturns("continue") /\ UNCHANGED error
           ELSE error' = "provisioning failed" /\ StepReturns("halt")
    /\ response' = <<>>
    /\ UNCHANGED <<ran, cleaned, cancelMark, envVars, api_client, selected_label,
                   application, application_resource, generated_data, ssh_host, ssh_port,
                   image_results, waitVars, apiVars, imageVars, result, sshVars>>

----------------------------------------------------------------------------
(* StepCreateImage *)

\* the task StepCreateImage.Run asks the fleet service to create
ImageTaskOnAllocate(appUID) ==
    [ApplicationUID |-> appUID, Task |-> "TaskImage", When |-> "ALLOCATED",
     Options |-> EmptyMap]

ImageTask(appUID) ==
    [ApplicationUID |-> appUID, Task |-> "TaskImage", When |-> "DEALLOCATE",
     Options |-> EmptyMap]

\* Run up to its loop: the task is created
StepCreateImage_Run ==
    /\ Running("StepCreateImage")
    /\ taskReqs' = Append(taskReqs, ImageTask(application[1].UID))
    /\ \E apiErr \in (IF ctxDone THEN {TRUE} ELSE BOOLEAN) :
           /\ response' = [by |-> "StepCreateImage", call |-> "CreateApplicationTask",
                            err |-> apiErr]
           /\ IF apiErr
              THEN /\ error' = "image task creation failed"
                   /\ StepReturns("halt")
                   /\ UNCHANGED task
              ELSE /\ task' = <<TaskUID>>
                   /\ pc' = "image"
                   /\ UNCHANGED <<idx, halted, error>>
    /\ UNCHANGED <<ran, cleaned, cancelMark, envVars, api_client, selected_label,
                   application, application_resource, generated_data, ssh_host, ssh_port,
                   image_results, waitVars, apiVars, imagePolls, result, sshVars>>

\* Run returns: its locals are gone
ImageLeaves == task' = <<>> /\ imagePolls' = 0

StepCreateImage_TimeoutUnrecorded ==
    /\ pc = "image"
    /\ StepReturns("halt")
    /\ ImageLeaves
    /\ response' = <<>>
    /\ UNCHANGED <<ran, cleaned, cancelMark, envVars, bagVars, waitVars, apiVars, taskReqs,
                   result, sshVars>>

\* case <-timeoutCtx.Done()
StepCreateImage_Timeout ==
    /\ pc = "image"
    /\ error' = "image creation timeout"
    /\ StepReturns("halt")
    /\ ImageLeaves
    /\ response' = <<>>
    /\ UNCHANGED <<ran, cleaned, cancelMark, envVars, api_client, selected_label,
                   application, application_resource, generated_data, ssh_host, ssh_port,
                   image_results, waitVars, apiVars, taskReqs, result, sshVars>>

\* case <-ticker.C: one poll of the task
StepCreateImage_Tick ==
    /\ pc = "image"
    /\ imagePolls < MaxImagePolls
    /\ \E apiErr \in (IF ctxDone THEN {TRUE} ELSE BOOLEAN), res \in TaskResults :
           /\ response' = [by |-> "StepCreateImage", call |-> "GetApplicationTask",
                            uid |-> task[1], err |-> apiErr,
                            result |-> IF apiErr THEN EmptyMap ELSE res]
           /\ IF apiErr
              THEN /\ error' = "failed to get task status"
                   /\ StepReturns("halt")
                   /\ ImageLeaves
                   /\ UNCHANGED image_results
              ELSE CASE ImageClass(res) = "pending" ->
                          /\ imagePolls' = imagePolls + 1
                          /\ UNCHANGED <<pc, idx, halted, error, image_results, task>>
                     [] ImageClass(res) = "failed" ->
                          /\ error' = "image creation failed"
                          /\ StepReturns("halt")
                          /\ ImageLeaves
                          /\ UNCHANGED image_results
                     [] OTHER ->
                          /\ image_results' = <<res>>
                          /\ StepReturns("continue")
                          /\ ImageLeaves
                          /\ UNCHANGED error
    /\ UNCHANGED <<ran, cleaned, cancelMark, envVars, api_client, selected_label,
                   application, application_resource, generated_data, ssh_host, ssh_port,
                   waitVars, apiVars, taskReqs, result, sshVars>>

----------------------------------------------------------------------------
(* The cleanups *)

\* the Cleanup of every step but StepCleanup is empty
Step_Cleanup ==
    /\ \E name \in {Steps[i] : i \in 1..Len(Steps)} \ {"StepCleanup"} :
           /\ CleanupDue(name)
           /\ cleaned' = Append(cleaned, name)
    /\ response' = <<>>
    /\ UNCHANGED <<pc, idx, ran, halted, cancelMark, envVars, bagVars, waitVars, apiVars,
                   imageVars, result, sshVars>>

\* StepCleanup.Cleanup has something to release: a client and an application are in the bag
CleanupLooksAtResource == api_client /\ application_resource # <<>>

CleanupHasWork == api_client /\ application # <<>>

\* the deallocation requests after DeallocateApplication(uid); the call takes no context
DeallocateWithRunContext(uid) == IF ctxDone THEN deallocReqs ELSE Append(deallocReqs, uid)

DeallocateApplication(uid) == Append(deallocReqs, uid)

\* the error slot after the deallocation request: a failure is logged, never recorded
CleanupRecordsFailure(failed) == IF failed THEN "deallocation failed" ELSE error

CleanupError(failed) == error

\* Cleanup finds the client or the application missing: it says so and returns
SkipCleanupWaits(log) ==
    /\ cleanupLog' = log
    /\ pc' = "dealloc"
    /\ response' = <<>>
    /\ UNCHANGED <<cleaned, deallocReqs, error>>

SkipCleanup(log) ==
    /\ cleanupLog' = log
    /\ cleaned' = Append(cleaned, "StepCleanup")
    /\ response' = <<>>
    /\ UNCHANGED <<pc, deallocReqs, error>>

\* Cleanup up to its loop: the checks, the deallocation request, the grace period
StepCleanup_Cleanup ==
    /\ CleanupDue("StepCleanup")
    /\ IF ~api_client
       THEN SkipCleanup("no_client")
       ELSE IF ~CleanupHasWork
       THEN SkipCleanup("no_application")
       ELSE \E failed \in BOOLEAN :
                /\ deallocReqs' = DeallocateApplication(application[1].UID)
                /\ response' = [by |-> "StepCleanup", call |-> "DeallocateApplication",
                                 err |-> failed]
                /\ error' = CleanupError(failed)
                /\ IF failed
                   THEN /\ cleanupLog' = "deallocate_failed"
                        /\ cleaned' = Append(cleaned, "StepCleanup")
                        /\ UNCHANGED pc
                   ELSE /\ cleanupLog' = "waiting"
                        /\ pc' = "dealloc"
                        /\ UNCHANGED cleaned
    /\ UNCHANGED <<idx, ran, halted, cancelMark, envVars, api_client, selected_label,
                   application, application_resource, generated_data, ssh_host, ssh_port,
                   image_results, waitVars, createReqs, cleanupPolls, imageVars, result,
                   sshVars>>

StepCleanup_TimeoutKeepsWaiting ==
    /\ pc = "dealloc"
    /\ cleanupPolls >= 1
    /\ cleanupLog' = "timeout"
    /\ response' = <<>>
    /\ UNCHANGED <<pc, idx, ran, cleaned, halted, cancelMark, envVars, bagVars, waitVars,
                   createReqs, deallocReqs, cleanupPolls, imageVars, result, sshVars>>

\* case <-timeoutCtx.Done(): two minutes of a ten-second ticker have passed
StepCleanup_Timeout ==
    /\ pc = "dealloc"
    /\ cleanupPolls >= 1
    /\ cleanupLog' = "timeout"
    /\ cleaned' = Append(cleaned, "StepCleanup")
    /\ pc' = "unwind"
    /\ cleanupPolls' = 0
    /\ response' = <<>>
    /\ UNCHANGED <<idx, ran, halted, cancelMark, envVars, bagVars, waitVars, createReqs,
                   deallocReqs, imageVars, result, sshVars>>

\* what a poll of Cleanup's loop makes of the state call's outcome
CleanupExitWaitsOnError(apiErr, st) ==
    IF apiErr THEN "state_failed"
    ELSE IF st \in {"DEALLOCATED", "RECALLED"} THEN "deallocated"
    ELSE "waiting"

CleanupExit(apiErr, st) ==
    IF apiErr THEN "state_failed"
    ELSE IF st \in {"DEALLOCATED", "RECALLED"} THEN "deallocated"
    ELSE IF st = "ERROR" THEN "error_state"
    ELSE "waiting"

\* case <-ticker.C: one poll of the application's state
StepCleanup_Tick ==
    /\ pc = "dealloc"
    /\ cleanupPolls < MaxCleanupPolls
    /\ \E apiErr \in BOOLEAN, st \in Statuses :
           LET exit == CleanupExit(apiErr, st)
           IN  /\ cleanupLog' = exit
               /\ response' = [by |-> "StepCleanup", call |-> "GetApplicationState",
                                err |-> apiErr, status |-> IF apiErr THEN "" ELSE st]
               /\ IF exit = "waiting"
                  THEN cleanupPolls' = cleanupPolls + 1 /\ UNCHANGED <<pc, cleaned>>
                  ELSE /\ pc' = "unwind"
                       /\ cleaned' = Append(cleaned, "StepCleanup")
                       /\ cleanupPolls' = 0
    /\ UNCHANGED <<idx, ran, halted, cancelMark, envVars, bagVars, waitVars, createReqs,
                   deallocReqs, imageVars, result, sshVars>>

----------------------------------------------------------------------------

Next ==
    \/ Builder_Prepare
    \/ Runner_Next
    \/ Runner_End
    \/ Runner_WatchCancel
    \/ Runner_Return
    \/ Cancel
    \/ Builder_Result
    \/ StepCleanup_Run
    \/ StepConnectAPI_Run
    \/ StepFindLabel_Run
    \/ StepCreateApplication_Run
    \/ StepWaitForAllocation_Run
    \/ StepWaitForAllocation_Timeout
    \/ StepWaitForAllocation_Tick
    \/ StepSetupSSH_Run
    \/ StepSetupSSHPoll_Run
    \/ StepSetupSSHPoll_Timeout
    \/ StepSetupSSHPoll_Tick
    \/ StepConnectSSH_Run
    \/ StepProvision_Run
    \/ StepCreateImage_Run
    \/ StepCreateImage_Timeout
    \/ StepCreateImage_Tick
    \/ Step_Cleanup
    \/ StepCleanup_Cleanup
    \/ StepCleanup_Timeout
    \/ StepCleanup_Tick

Spec == Init /\ [][Next]_vars

----------------------------------------------------------------------------
(* The API client on its own: one operation applied to one reply of the transport *)

\* the operations of APIClient that both generations have
ClientOps == {"GetLabels", "CreateApplication", "GetApplicationState",
              "GetApplicationResource", "GetApplicationResourceAccess",
              "DeallocateApplication", "CreateApplicationTask", "GetApplicationTask"}

\* what HTTPClient.Do gives the legacy client: an error of its own, or a response with a
\* status and a body that is the JSON of the expected type ("json") or is not ("garbage")
HTTPReplies ==
    {[failed |-> TRUE, status |-> 0, body |-> ""]}
        \cup {[failed |-> FALSE, status |-> st, body |-> b] :
                  st \in {200, 201, 204, 404, 500}, b \in {"json", "garbage"}}

\* what a connect call gives the v2 client: an error with its code, or a message whose
\* data is set or not
RPCReplies ==
    {[code |-> c, data |-> <<>>] : c \in {"not_found", "unavailable"}}
        \cup {[code |-> "ok", data |-> d] : d \in {<<>>, <<"data">>}}

NoClientError == [kind |-> "none"]

\* legacy: the operations that answer a 404 with nil, nil
NotFoundIsNil == {"GetApplicationResource", "GetApplicationResourceAccess"}

\* legacy: each operation after makeRequest returned
LegacyCall(op, reply) ==
    IF reply.failed
    THEN [val |-> <<>>, err |-> [kind |-> "transport error"]]
    ELSE IF reply.status # 200
    THEN IF op \in NotFoundIsNil /\ reply.status = 404
         THEN [val |-> <<>>, err |-> NoClientError]
         ELSE [val |-> <<>>,
               err |-> [kind |-> "API request failed", status |-> reply.status,
                        body |-> reply.body]]
    ELSE IF op = "DeallocateApplication"
    THEN [val |-> <<>>, err |-> NoClientError]
    ELSE IF reply.body # "json"
    THEN [val |-> <<>>, err |-> [kind |-> "decode failed"]]
    ELSE [val |-> <<op>>, err |-> NoClientError]

\* v2: each operation after the connect call returned
V2Call(op, reply) ==
    IF reply.code # "ok"
    THEN [val |-> <<>>, err |-> [kind |-> "rpc error", code |-> reply.code]]
    ELSE IF op = "DeallocateApplication"
    THEN [val |-> <<>>, err |-> NoClientError]
    ELSE [val |-> reply.data, err |-> NoClientError]

InitClient ==
    /\ pc = "client"
    /\ idx = 1
    /\ ran = <<>>
    /\ cleaned = <<>>
    /\ halted = FALSE
    /\ cancelMark = FALSE
    /\ ctxDone = FALSE
    /\ gen \in {"v2", "legacy"}
    /\ config = [LabelVersion |-> <<>>, SSHHost |-> <<>>, SSHPort |-> 0,
                 ConnectionRetries |-> DefaultConnectionRetries, Endpoint |-> "e",
                 Username |-> "u", Password |-> "p", LabelName |-> "l"]
    /\ prepareErr = NoError
    /\ api_client = TRUE
    /\ selected_label = <<>>
    /\ application = <<>>
    /\ application_resource = <<>>
    /\ generated_data = EmptyMap
    /\ error = NoError
    /\ ssh_host = <<>>
    /\ ssh_port = <<>>
    /\ image_results = <<>>
    /\ lastStatus = ""
    /\ waitPolls = 0
    /\ resourcePuts = 0
    /\ createReqs = 0
    /\ deallocReqs = <<>>
    /\ cleanupPolls = 0
    /\ cleanupLog = ""
    /\ task = <<>>
    /\ imagePolls = 0
    /\ taskReqs = <<>>
    /\ retryCount = 0
    /\ response = <<>>
    /\ result = <<>>

\* one operation of the client is called and the transport answers
APIClient_Call ==
    /\ pc = "client"
    /\ \E op \in ClientOps :
           \E reply \in (IF gen = "legacy" THEN HTTPReplies ELSE RPCReplies) :
               response' = [by |-> "APIClient", call |-> op, reply |-> reply,
                            out |-> IF gen = "legacy" THEN LegacyCall(op, reply)
                                    ELSE V2Call(op, reply)]
    /\ UNCHANGED <<runnerVars, envVars, bagVars, waitVars, apiVars, imageVars, sshVars,
                   result>>

NextClient == APIClient_Call

SpecClient == InitClient /\ [][NextClient]_vars

\* the same run with a caller that never cancels the context
NextUncancelled ==
    \/ Builder_Prepare
    \/ Runner_Next
    \/ Runner_End
    \/ Runner_Return
    \/ Builder_Result
    \/ StepCleanup_Run
    \/ StepConnectAPI_Run
    \/ StepFindLabel_Run
    \/ StepCreateApplication_Run
    \/ StepWaitForAllocation_Run
    \/ StepWaitForAllocation_Timeout
    \/ StepWaitForAllocation_Tick
    \/ StepSetupSSH_Run
    \/ StepSetupSSHPoll_Run
    \/ StepSetupSSHPoll_Timeout
    \/ StepSetupSSHPoll_Tick
    \/ StepConnectSSH_Run
    \/ StepProvision_Run
    \/ StepCreateImage_Run
    \/ StepCreateImage_Timeout
    \/ StepCreateImage_Tick
    \/ Step_Cleanup
    \/ StepCleanup_Cleanup
    \/ StepCleanup_Timeout
    \/ StepCleanup_Tick

SpecUncancelled == Init /\ [][NextUncancelled]_vars

\* the run with a deadline that does elapse: once timeoutCtx is done the select of
\* StepWaitForAllocation's loop takes that case
SpecDeadline == Init /\ [][Next]_vars /\ WF_vars(StepWaitForAllocation_Timeout)

\* the build as it is scheduled: Prepare, the runner, the steps and the cases of their
\* selects go on whenever one of them can (tickers fire, deadlines elapse, calls return);
\* the caller is free never to cancel
SpecFair == Init /\ [][Next]_vars /\ WF_vars(NextUncancelled)

----------------------------------------------------------------------------
(* The claims *)

Range(s) == {s[i] : i \in 1..Len(s)}

\* the order of the workflow as the specification gives it
FixedOrder == <<"StepCleanup", "StepConnectAPI", "StepFindLabel", "StepCreateApplication",
                "StepWaitForAllocation", "StepSetupSSH", "StepConnectSSH", "StepProvision",
                "StepCreateImage">>

OutputKeys == {"ApplicationUID", "ResourceUID", "SSHHost", "SSHPort"}

\* C1: a run that stored an Allocation and was then halted by a later step has issued,
\* when Run returns, exactly one deallocation request, and it carries that Allocation's
\* id; no run ever issues more than one.
C1_OneDeallocationOnHalt ==
    /\ Len(deallocReqs) <= 1
    /\ (pc = "returned" /\ halted /\ application # <<>>)
           => deallocReqs = <<application[1].UID>>

C1_Witness ==
    /\ pc = "returned"
    /\ halted
    /\ error = "provisioning failed"
    /\ application # <<>>
    /\ deallocReqs = <<application[1].UID>>

\* C2: however the run ended (all steps done, a halt, or a cancelled context), once Run
\* has returned with an Allocation in the bag, StepCleanup's Cleanup was invoked and a
\* deallocation request for that Allocation was issued.
C2_DeallocationBeforeReturn ==
    (pc = "returned" /\ application # <<>>)
        => /\ "StepCleanup" \in Range(cleaned)
           /\ application[1].UID \in Range(deallocReqs)

C2_Witness ==
    /\ pc = "returned"
    /\ cancelMark
    /\ ~halted
    /\ error = NoError
    /\ application # <<>>
    /\ application[1].UID \in Range(deallocReqs)

\* a later step's Run was called after StepCreateApplication's
PassedCreate ==
    \E i \in 1..Len(ran) : ran[i] = "StepCreateApplication" /\ i < Len(ran)

\* C3: a run submits at most one create request and stores at most one resource; once a
\* step after StepCreateApplication runs, the bag holds an application, and a stored
\* application is never replaced or removed.
C3_OneAllocationOneResource ==
    /\ [](createReqs <= 1 /\ resourcePuts <= 1)
    /\ [](PassedCreate => application # <<>>)
    /\ [][application # <<>> => application' = application]_vars

C3_Witness ==
    /\ pc = "returned"
    /\ createReqs = 1
    /\ resourcePuts = 1
    /\ application # <<>>
    /\ application_resource # <<>>

\* C4: the Run calls follow the fixed order: each call is that of the next step of the
\* order, made when every earlier step returned continue (the runner is at its loop head,
\* not halted), and after a halt no Run is called.
C4_FixedOrder ==
    /\ [](IsPrefix(ran, FixedOrder))
    /\ [][ran' # ran => /\ pc = "loop"
                        /\ ~halted
                        /\ idx = Len(ran) + 1
                        /\ ran' = Append(ran, FixedOrder[idx])]_vars
    /\ [][halted => ran' = ran]_vars

C4_Witness ==
    /\ pc = "returned"
    /\ halted
    /\ error = "application failed"
    /\ ran = SubSeq(FixedOrder, 1, 5)

\* C5: no Cleanup runs while steps are still being executed; the Cleanups then run in the
\* reverse of the order in which the Runs were called, once each and only for steps that
\* ran, and the last of them is StepCleanup's.
C5_ReverseCleanup ==
    /\ IsPrefix(cleaned, Reverse(ran))
    /\ pc \in {"loop", "run", "wait", "ssh", "image"} => cleaned = <<>>
    /\ pc \in {"built", "returned"}
           => /\ cleaned = Reverse(ran)
              /\ ran # <<>> => cleaned[Len(cleaned)] = "StepCleanup"

C5_Witness ==
    /\ pc = "returned"
    /\ halted
    /\ cleaned = <<"StepFindLabel", "StepConnectAPI", "StepCleanup">>

\* C6: Run has a result only once every Cleanup has finished; the result is the recorded
\* error without an artifact when the error slot is set, and otherwise an artifact whose
\* generated data is the generated-output map, without an error.
C6_ResultAfterCleanup ==
    /\ result # <<>> <=> pc = "returned"
    /\ result # <<>>
           => /\ Len(cleaned) = Len(ran)
              /\ error # NoError
                     => result[1] = [artifact |-> <<>>, err |-> error]
              /\ error = NoError
                     => result[1] = [artifact |-> <<[generated_data |-> generated_data]>>,
                                     err |-> NoError]

C6_Witness ==
    /\ pc = "returned"
    /\ cleanupLog = "deallocated"
    /\ error = "image creation failed"
    /\ result[1].artifact = <<>>
    /\ result[1].err = "image creation failed"

\* C7: once the error slot is set its value never changes and no further Run is called,
\* and that value is the error Run returns.
C7_ErrorWrittenOnce ==
    /\ [][error # NoError => (error' = error /\ ran' = ran)]_vars
    /\ []((pc = "returned" /\ error # NoError) => result[1].err = error)

C7_Witness ==
    /\ pc = "returned"
    /\ error = "allocation timeout"
    /\ result[1].err = "allocation timeout"
    /\ cleanupLog = "deallocate_failed"

\* StepCleanup's Cleanup is executing
InStepCleanupCleanup == CleanupDue("StepCleanup") \/ pc = "dealloc"

\* C8: no step taken while StepCleanup's Cleanup executes changes the error slot or the
\* generated-output map, whichever way the Cleanup ends.
C8_CleanupFrame ==
    [][InStepCleanupCleanup
           => (error' = error /\ generated_data' = generated_data)]_vars

C8_Witness ==
    /\ cleanupLog \in {"deallocate_failed", "state_failed", "error_state", "timeout"}
    /\ "StepCleanup" \in Range(cleaned)
    /\ error = "failed to get SSH access"
    /\ DOMAIN generated_data = {"ApplicationUID", "ResourceUID"}

\* C9: when Run returns an artifact and no error, the artifact's generated data has
\* exactly the keys ApplicationUID, ResourceUID, SSHHost and SSHPort, each with a
\* non-empty value.
C9_FourNonEmptyOutputs ==
    (pc = "returned" /\ result[1].err = NoError)
        => LET gd == result[1].artifact[1].generated_data
           IN  /\ DOMAIN gd = OutputKeys
               /\ \A k \in DOMAIN gd : gd[k] # <<>>

\* C10: a Wait-For-Ready poll that observed ERROR, DEALLOCATED, DEALLOCATE or RECALLED
\* ends the step on that tick: the loop never goes round again, to poll the state or the
\* resource once more, with such a status as the last one seen.
C10_TerminalStatusHalts ==
    pc = "wait" => lastStatus \notin {"ERROR", "DEALLOCATED", "DEALLOCATE", "RECALLED"}

\* the latest action was a poll of StepWaitForAllocation whose state call succeeded
WaitPolled ==
    /\ response # <<>>
    /\ response.by = "StepWaitForAllocation"
    /\ ~response.err

\* that poll saw ALLOCATED and its resource lookup returned a resource
WaitPolledReady ==
    /\ WaitPolled
    /\ response.status = "ALLOCATED"
    /\ ~response.resErr
    /\ response.res # <<>>

\* C11: a poll of StepWaitForAllocation ends the step without an error exactly when it
\* saw ALLOCATED and its resource lookup returned a resource; the step then goes on to the
\* next step (unless the run was cancelled meanwhile), that resource is in the bag and its
\* id is published under ResourceUID.
C11_ContinueOnlyWhenReady ==
    (response # <<>> /\ response.by = "StepWaitForAllocation")
        => /\ (pc # "wait" /\ error = NoError) <=> WaitPolledReady
           /\ WaitPolledReady
                  => /\ pc = "loop" \/ cancelMark
                     /\ ~halted
                     /\ application_resource = response.res
                     /\ "ResourceUID" \in DOMAIN generated_data
                     /\ generated_data["ResourceUID"] = response.res[1].UID

\* the third poll, after NEW and ELECTED, saw ALLOCATED with the resource
C11_Witness ==
    /\ WaitPolledReady
    /\ response.tick = 3
    /\ response.prevStatus = "ELECTED"
    /\ pc = "loop"
    /\ application_resource = <<Resource(application[1].UID)>>
    /\ generated_data["ResourceUID"] = ResUID

EnumeratedStatuses == {"NEW", "ELECTED", "ALLOCATED", "ERROR", "DEALLOCATE", "DEALLOCATED",
                       "RECALLED"}

\* C12: a poll of StepWaitForAllocation that saw a status outside the seven enumerated
\* ones leaves the step in its loop, not halted and without an error.
C12_UnknownStatusKeepsWaiting ==
    (WaitPolled /\ response.status \notin EnumeratedStatuses)
        => /\ pc = "wait"
           /\ ~halted
           /\ error = NoError

C12_Witness ==
    /\ WaitPolled
    /\ response.status = "UNKNOWN"
    /\ pc = "wait"
    /\ lastStatus = "UNKNOWN"
    /\ error = NoError

\* that poll saw ALLOCATED and its resource lookup returned no resource and no error
WaitPolledNoResource ==
    /\ WaitPolled
    /\ response.status = "ALLOCATED"
    /\ response.resCalled
    /\ ~response.resErr
    /\ response.res = <<>>

\* C13: a poll of StepWaitForAllocation that saw ALLOCATED while the resource lookup
\* returned no resource leaves the step in its loop, not halted, without an error and
\* without a stored resource.
C13_MissingResourceKeepsWaiting ==
    WaitPolledNoResource
        => /\ pc = "wait"
           /\ ~halted
           /\ error = NoError
           /\ application_resource = <<>>
           /\ resourcePuts = 0
           /\ "ResourceUID" \notin DOMAIN generated_data

\* a later poll found the resource after an earlier ALLOCATED poll had found none
C13_Witness ==
    /\ WaitPolledReady
    /\ response.prevStatus = "ALLOCATED"
    /\ response.tick >= 2
    /\ pc = "loop"
    /\ error = NoError
    /\ application_resource # <<>>

\* C14: StepWaitForAllocation's loop leaves through its timeout case only by halting with
\* the timeout error, never by continuing, and once the deadline has elapsed the loop does
\* not go on for ever: it is left.
C14_TimeoutHalts ==
    /\ [][(pc = "wait" /\ pc' # "wait" /\ response' = <<>>)
              => /\ error' = "allocation timeout"
                 /\ pc' = "unwind"
                 /\ halted' \/ cancelMark]_vars
    /\ (pc = "wait") ~> (pc # "wait")

\* the deadline elapsed after polls that never found the application ready
C14_Witness ==
    /\ pc = "unwind"
    /\ halted
    /\ error = "allocation timeout"
    /\ response = <<>>
    /\ application_resource = <<>>
    /\ ran[Len(ran)] = "StepWaitForAllocation"
    /\ cleaned = <<>>

PollingLoops == {"wait", "ssh", "image", "dealloc"}

\* the loop at pc is left through its timeout case
EndsAsTimeout ==
    /\ pc' = "unwind"
    /\ pc = "wait" => error' = "allocation timeout"
    /\ pc = "ssh" => error' = "SSH access availability timeout"
    /\ pc = "image" => error' = "image creation timeout"
    /\ pc = "dealloc" => cleanupLog' = "timeout"

\* C15: while the top-level context is cancelled, no step taken inside a polling loop
\* (StepWaitForAllocation, StepSetupSSH, StepCreateImage, StepCleanup's deallocation wait)
\* makes a remote call, and the loop's next step ends it as a timeout.
C15_CancelEndsPolling ==
    [][(ctxDone /\ pc \in PollingLoops)
           => /\ response' = <<>>
              /\ cancelMark' # cancelMark \/ EndsAsTimeout]_vars

\* the latest action was an access request of StepSetupSSH that returned without an error
AccessPolled ==
    /\ response # <<>>
    /\ response.by = "StepSetupSSH"
    /\ ~response.err

\* C16: an access request of StepSetupSSH answered with no credentials yet leaves the step
\* in its loop, without an error and with no host or port stored or published.
C16_AccessNotReadyKeepsPolling ==
    (AccessPolled /\ response.nil)
        => /\ pc = "ssh"
           /\ error = NoError
           /\ ssh_host = <<>>
           /\ ssh_port = <<>>
           /\ DOMAIN generated_data \cap {"SSHHost", "SSHPort"} = {}

ForwardSteps == {"StepConnectAPI", "StepFindLabel", "StepCreateApplication",
                 "StepWaitForAllocation", "StepSetupSSH", "StepCreateImage"}

\* the error each forward step records when one of its remote calls fails
CallErrors ==
    [StepConnectAPI |-> {"API connection failed", "authentication failed",
                         "API connection test failed"},
     StepFindLabel |-> {"label retrieval failed"},
     StepCreateApplication |-> {"application creation failed"},
     StepWaitForAllocation |-> {"failed to get application state",
                                "failed to get application resource"},
     StepSetupSSH |-> {"failed to get SSH access", "failed to get SSH access credentials"},
     StepCreateImage |-> {"image task creation failed", "failed to get task status"}]

\* a remote call of the latest action returned an error
CallFailed ==
    /\ response # <<>>
    /\ \/ response.err
       \/ response.by = "StepWaitForAllocation" /\ response.resErr

SSHLoopErrors == {"SSH access availability retry limit exceeded",
                  "SSH access availability timeout",
                  "failed to get SSH access credentials"}

\* C18: connection_retries is at least 1 after Prepare and no access request of
\* StepSetupSSH is an attempt beyond it; once that many attempts were answered "not yet",
\* the next step of the loop makes no request and halts, a tick with the retry-limit error
\* and the deadline with the timeout error, neither of them the error of a failed request.
C18_RetryLimit ==
    /\ [](pc # "prepare"
              => (config.ConnectionRetries >= 1 /\ retryCount <= config.ConnectionRetries))
    /\ []((response # <<>> /\ response.by = "StepSetupSSH")
              => response.attempt <= config.ConnectionRetries)
    /\ [][(pc = "ssh" /\ retryCount = config.ConnectionRetries /\ retryCount' # retryCount)
              => /\ response' = <<>>
                 /\ pc' = "unwind"
                 /\ halted' \/ cancelMark
                 /\ error' \in {"SSH access availability retry limit exceeded",
                                "SSH access availability timeout"}]_vars
    /\ [][(pc = "ssh" /\ pc' # "ssh" /\ error' # NoError)
              => /\ error' \in SSHLoopErrors
                 /\ response' # <<>> <=> error' = "failed to get SSH access credentials"
                 /\ error' = "SSH access availability retry limit exceeded"
                        => retryCount = config.ConnectionRetries]_vars

\* the default of 60 attempts was used up and the 61st tick halted the step
C18_Witness ==
    /\ pc = "unwind"
    /\ config.ConnectionRetries = DefaultConnectionRetries
    /\ error = "SSH access availability retry limit exceeded"
    /\ response = <<>>
    /\ halted
    /\ ssh_host = <<>>

\* the positions of the colons of an address
Colons(addr) == {i \in 1..Len(addr) : addr[i] = ":"}

\* an address of exactly two colon-separated fields, the second of them a decimal number
Parsable(addr) ==
    /\ Cardinality(Colons(addr)) = 1
    /\ LET i == CHOOSE j \in Colons(addr) : TRUE
       IN  /\ i < Len(addr)
           /\ \A k \in (i + 1)..Len(addr) : IsDigit(addr[k])

\* C19: an access response carrying an address never makes StepSetupSSH fail: the step
\* returns continue; for an unparsable address the stored and the published host and port
\* are the communicator's configured ones, and for a parsable address the published host
\* and port are the two fields of the address.
C19_AddressFallback ==
    [][(response' # <<>> /\ response'.by = "StepSetupSSH" /\ ~response'.err
            /\ response'.access # <<>>)
           => LET addr == response'.access[1].Address
                  gd == generated_data'
              IN  /\ error' = NoError
                  /\ pc' = "loop" \/ cancelMark
                  /\ ~halted'
                  /\ {"SSHHost", "SSHPort"} \subseteq DOMAIN gd
                  /\ IF Parsable(addr)
                     THEN LET i == CHOOSE j \in Colons(addr) : TRUE
                          IN  /\ ssh_host' = <<SubSeq(addr, 1, i - 1)>>
                              /\ ssh_port' = <<DigitsValue(SubSeq(addr, i + 1, Len(addr)))>>
                              /\ gd["SSHHost"] = ssh_host'[1]
                              /\ gd["SSHPort"] = Itoa(ssh_port'[1])
                     ELSE /\ ssh_host' = <<config.SSHHost>>
                          /\ ssh_port' = <<config.SSHPort>>
                          /\ gd["SSHHost"] = config.SSHHost
                          /\ gd["SSHPort"] = Itoa(config.SSHPort)]_vars

\* the address "h:2:2" has three fields: the configured host "d" and port 22 are published
C19_Witness ==
    /\ response # <<>>
    /\ response.by = "StepSetupSSH"
    /\ response.access # <<>>
    /\ response.access[1].Address = <<"h", ":", "2", ":", "2">>
    /\ pc = "loop"
    /\ error = NoError
    /\ generated_data["SSHHost"] = <<"d">>
    /\ generated_data["SSHPort"] = <<"2", "2">>

\* the latest action was a poll of StepCreateImage that returned a task with a result
TaskPolled ==
    /\ response # <<>>
    /\ response.call = "GetApplicationTask"
    /\ ~response.err
    /\ DOMAIN response.result # {}

\* the status field of a result map
StatusOf(res) == IF "status" \in DOMAIN res THEN res["status"] ELSE "<absent>"

\* C20: a poll of StepCreateImage that returned a non-empty result ends the step by the
\* status field alone: success or completed continues with the result stored, failed or
\* error halts with an error, any other status or none continues with the result stored.
C20_StatusDecides ==
    TaskPolled
        => LET st == StatusOf(response.result)
           IN  /\ pc # "image"
               /\ st \in {"failed", "error"}
                      => /\ error = "image creation failed"
                         /\ pc = "unwind"
                         /\ halted \/ cancelMark
                         /\ image_results = <<>>
               /\ st \notin {"failed", "error"}
                      => /\ error = NoError
                         /\ ~halted
                         /\ pc = "loop" \/ cancelMark
                         /\ image_results = <<response.result>>

\* a result without a status field ended the step with continue
C20_Witness ==
    /\ TaskPolled
    /\ StatusOf(response.result) = "<absent>"
    /\ pc = "loop"
    /\ error = NoError
    /\ image_results = <<[image |-> "img"]>>

----------------------------------------------------------------------------
(* StepFindLabel: which label is selected *)

\* StepFindLabel.Run has just returned after GetLabels gave it a list of labels
LabelsReturned ==
    /\ response # <<>>
    /\ response.by = "StepFindLabel"
    /\ ~response.err
    /\ response.labels # <<>>

\* the position of the first label of the list that holds the list's highest version
FirstHighest(labels) ==
    CHOOSE i \in 1..Len(labels) :
        /\ \A j \in 1..Len(labels) : labels[j].Version <= labels[i].Version
        /\ \A j \in 1..(i - 1) : labels[j].Version < labels[i].Version

\* the step stored this label and went on, or, the label having no definitions, recorded
\* that and halted
Selected(lab) ==
    IF lab.NDefs > 0
    THEN /\ selected_label = <<lab>>
         /\ error = NoError
         /\ pc = "loop" \/ cancelMark
    ELSE /\ selected_label = <<>>
         /\ error = "label has no definitions"
         /\ halted \/ cancelMark

\* C21: with no version requested, StepFindLabel selects, among the labels GetLabels
\* returned, one holding the highest version, and of several holding it the first in the
\* returned order.
C21_LatestIsFirstHighest ==
    (LabelsReturned /\ config.LabelVersion = <<>>)
        => Selected(response.labels[FirstHighest(response.labels)])

\* versions 1, 3, 2 were returned and the label of version 3 was selected
C21_Witness ==
    /\ LabelsReturned
    /\ config.LabelVersion = <<>>
    /\ response.labels = <<Label(1, 1), Label(3, 1), Label(2, 1)>>
    /\ selected_label = <<Label(3, 1)>>

\* two labels share the highest version and the first of them was selected
C21_WitnessShared ==
    /\ LabelsReturned
    /\ config.LabelVersion = <<>>
    /\ response.labels = <<Label(1, 1), Label(MaxVersion, 1), Label(MaxVersion, 0)>>
    /\ selected_label = <<Label(MaxVersion, 1)>>

\* C22: with a version requested, StepFindLabel selects the returned label whose version
\* equals the requested integer, and halts with a not-found error when no returned label
\* holds exactly that version.
C22_RequestedVersion ==
    (LabelsReturned /\ config.LabelVersion # <<>>
        /\ \A i \in 1..Len(config.LabelVersion) : IsDigit(config.LabelVersion[i]))
        => LET v == DigitsValue(config.LabelVersion)
               labels == response.labels
               hits == {i \in 1..Len(labels) : labels[i].Version = v}
           IN  IF hits # {}
               THEN Selected(labels[CHOOSE i \in hits : \A j \in hits : i <= j])
               ELSE /\ error = "label version not found"
                    /\ selected_label = <<>>
                    /\ halted \/ cancelMark

\* version 2 was requested over versions 1, 3, 2 and the label of version 2 was selected
C22_Witness ==
    /\ LabelsReturned
    /\ config.LabelVersion = <<"2">>
    /\ response.labels = <<Label(1, 1), Label(3, 1), Label(2, 1)>>
    /\ selected_label = <<Label(2, 1)>>

\* version 2 was requested, no returned label holds it, and the step halted
C22_WitnessNotFound ==
    /\ LabelsReturned
    /\ config.LabelVersion = <<"2">>
    /\ response.labels = <<Label(1, 1), Label(3, 1)>>
    /\ error = "label version not found"
    /\ halted

----------------------------------------------------------------------------
(* StepCleanup.Cleanup with nothing to release *)

\* C23: when StepCleanup's Cleanup is due with no client or no application in the bag, it
\* makes no remote request, does not enter its wait loop, records no error and returns.
C23_NothingToRelease ==
    [][(CleanupDue("StepCleanup") /\ (~api_client \/ application = <<>>))
          => /\ response' = <<>>
             /\ deallocReqs' = deallocReqs
             /\ cleanupPolls' = cleanupPolls
             /\ error' = error
             /\ pc' = "unwind"
             /\ cleaned' # cleaned => cleaned' = Append(cleaned, "StepCleanup")]_vars

\* Cleanup returned from a run that has a client but never created an application
C23_Witness ==
    /\ cleanupLog = "no_application"
    /\ api_client
    /\ application = <<>>
    /\ cleaned # <<>> /\ cleaned[Len(cleaned)] = "StepCleanup"
    /\ deallocReqs = <<>>
    /\ pc = "unwind"

\* Cleanup returned from a run that has no client
C23_WitnessNoClient ==
    /\ cleanupLog = "no_client"
    /\ ~api_client
    /\ cleaned # <<>> /\ cleaned[Len(cleaned)] = "StepCleanup"
    /\ deallocReqs = <<>>

----------------------------------------------------------------------------
(* Builder.Prepare: the required fields *)

\* C24: Prepare fails with a configuration error whenever the endpoint, the username, the
\* password or the label name is empty; then no step runs and no remote request is made.
C24_RequiredFields ==
    (config.Endpoint = "" \/ config.Username = "" \/ config.Password = ""
        \/ config.LabelName = "")
        => /\ \/ pc = "prepare"
              \/ /\ pc = "rejected"
                 /\ prepareErr \in {"endpoint is required", "username is required",
                                     "password is required", "label_name is required"}
           /\ ran = <<>>
           /\ ~api_client
           /\ response = <<>>
           /\ createReqs = 0
           /\ deallocReqs = <<>>
           /\ task = <<>>
           /\ result = <<>>

\* Prepare rejected a configuration whose password alone is empty
C24_Witness ==
    /\ config.Endpoint # "" /\ config.Username # "" /\ config.LabelName # ""
    /\ config.Password = ""
    /\ prepareErr = "password is required"
    /\ pc = "rejected"

----------------------------------------------------------------------------
(* The API client: what its operations return *)

ClientCalled == response # <<>> /\ response.by = "APIClient"

\* the transport's reply says that the object asked for does not exist
ReportsNotFound(reply) ==
    IF gen = "legacy" THEN ~reply.failed /\ reply.status = 404
    ELSE reply.code = "not_found"

\* C25: GetApplicationResource and GetApplicationResourceAccess return nil and no error
\* when the service reports that the object does not exist.
C25_NotFoundIsAbsent ==
    (ClientCalled /\ response.call \in NotFoundIsNil /\ ReportsNotFound(response.reply))
        => (response.out.val = <<>> /\ response.out.err = NoClientError)

\* the legacy lookups do return nil, nil on a 404
C25_LegacyNotFoundIsAbsent ==
    (ClientCalled /\ gen = "legacy" /\ response.call \in NotFoundIsNil
        /\ ~response.reply.failed /\ response.reply.status = 404)
        => (response.out.val = <<>> /\ response.out.err = NoClientError)

\* C26: a legacy client operation returns its typed result exactly when the status is 2xx
\* and the body decodes; a transport failure or a status outside 2xx gives the error
\* "API request failed" with the status and the body, a body that does not decode gives
\* the decode error; the 404 of the two lookups apart.
C26_ResultExactlyOn2xx ==
    (ClientCalled /\ gen = "legacy"
        /\ ~(response.call \in NotFoundIsNil /\ ReportsNotFound(response.reply)))
        => LET reply == response.reply
               out == response.out
               is2xx == ~reply.failed /\ reply.status \in 200..299
               decodes == reply.body = "json" \/ response.call = "DeallocateApplication"
           IN  /\ (out.err = NoClientError) <=> (is2xx /\ decodes)
               /\ ~is2xx => (out.err.kind = "API request failed"
                               /\ out.err.status = reply.status
                               /\ out.err.body = reply.body)
               /\ (is2xx /\ ~decodes) => out.err.kind = "decode failed"

\* what the legacy operations do: the result on status 200 with a body that decodes, the
\* decode error on status 200 otherwise, "API request failed" with status and body on
\* every other status, the transport's own error when the request failed
C26_ResultExactlyOn200 ==
    (ClientCalled /\ gen = "legacy"
        /\ ~(response.call \in NotFoundIsNil /\ ReportsNotFound(response.reply)))
        => LET reply == response.reply
               out == response.out
               decodes == reply.body = "json" \/ response.call = "DeallocateApplication"
           IN  /\ (out.err = NoClientError) <=> (~reply.failed /\ reply.status = 200 /\ decodes)
               /\ reply.failed => out.err.kind = "transport error"
               /\ (~reply.failed /\ reply.status # 200)
                      => (out.err.kind = "API request failed"
                            /\ out.err.status = reply.status
                            /\ out.err.body = reply.body)
               /\ (~reply.failed /\ reply.status = 200 /\ ~decodes)
                      => out.err.kind = "decode failed"

----------------------------------------------------------------------------
(* StepCreateImage and the deallocation *)

\* a forward step is executing, or the runner is between two forward steps
ForwardProgress == pc \in {"loop", "run", "wait", "ssh", "image"}

\* StepCreateImage's loop ends with this step because a poll read a non-empty result
EndsByResult ==
    /\ pc = "image"
    /\ pc' # "image"
    /\ response' # <<>>
    /\ ~response'.err
    /\ response'.result # EmptyMap

\* C27: no deallocation request is made while a forward step is executing: every request
\* is made during the unwinding, after StepCreateImage's loop has ended.  Hence every
\* poll of the task, and every non-empty result that ends the loop, is read before any
\* deallocation has been requested: with a service that fills the result only once the
\* deallocation is requested the loop ends by timeout or by a failed call only.
C27_NoDeallocationDuringForwardSteps ==
    /\ [](ForwardProgress => deallocReqs = <<>>)
    /\ [][deallocReqs' # deallocReqs
              => (pc = "unwind" /\ CleanupDue("StepCleanup") /\ task = <<>>)]_vars
    /\ []((response # <<>> /\ response.by = "StepCreateImage") => deallocReqs = <<>>)
    /\ [][EndsByResult => (deallocReqs = <<>> /\ deallocReqs' = <<>>)]_vars
    /\ [][(pc = "image" /\ pc' # "image" /\ ~EndsByResult)
              => error' \in {"image creation timeout", "failed to get task status"}]_vars

\* the deallocation was requested after StepCreateImage's loop had ended by its timeout
C27_Witness ==
    /\ deallocReqs # <<>>
    /\ Len(ran) = Len(Steps)
    /\ error = "image creation timeout"
    /\ taskReqs # <<>>
    /\ pc = "dealloc"

\* C28: StepCreateImage submits exactly one task per run, for the application in the bag,
\* to be executed on DEALLOCATE, with empty options; every tick then fetches the task
\* that was created, and goes on while the fetched result is empty; the loop ends only on
\* a non-empty result, a failed fetch or the timeout.
C28_OneTaskPolledUntilResult ==
    /\ [](Len(taskReqs) <= 1)
    /\ [](\A i \in 1..Len(taskReqs) :
              /\ application # <<>>
              /\ taskReqs[i] = [ApplicationUID |-> application[1].UID, Task |-> "TaskImage",
                                When |-> "DEALLOCATE", Options |-> EmptyMap])
    /\ [](pc = "image" => (Len(taskReqs) = 1 /\ task = <<TaskUID>>))
    /\ []((response # <<>> /\ response.by = "StepCreateImage"
               /\ response.call = "GetApplicationTask") => response.uid = TaskUID)
    /\ [][(pc = "image" /\ response' # <<>> /\ ~response'.err
               /\ response'.result = EmptyMap)
              => (pc' = "image" /\ task' = task /\ taskReqs' = taskReqs)]_vars
    /\ [][(pc = "image" /\ pc' # "image")
              => \/ EndsByResult
                 \/ response' # <<>> /\ response'.err
                       /\ error' = "failed to get task status"
                 \/ response' = <<>> /\ error' = "image creation timeout"]_vars

\* the one task was created and the loop went on after a poll that read an empty result
C28_Witness ==
    /\ pc = "image"
    /\ imagePolls >= 1
    /\ Len(taskReqs) = 1
    /\ response # <<>> /\ response.call = "GetApplicationTask"
    /\ ~response.err
    /\ response.result = EmptyMap

----------------------------------------------------------------------------
(* What the steps find in the bag, and what they leave in the error slot *)

\* the step whose Run has been called and has not returned
Executing(name) ==
    /\ pc \in {"run", "wait", "ssh", "image"}
    /\ idx \in 1..Len(Steps)
    /\ Steps[idx] = name

\* C29: when a step's Run starts, every slot it reads with state.Get is in the bag: the
\* client for StepFindLabel, StepCreateApplication, StepWaitForAllocation, StepSetupSSH
\* and StepCreateImage; the selected label for StepCreateApplication; the application for
\* StepWaitForAllocation and StepCreateImage; the resource for StepSetupSSH; and ssh_host
\* for the host lookup of the connector.
C29_SlotsPopulated ==
    /\ \A name \in {"StepFindLabel", "StepCreateApplication", "StepWaitForAllocation",
                      "StepSetupSSH", "StepCreateImage"} : Executing(name) => api_client
    /\ Executing("StepCreateApplication") => selected_label # <<>>
    /\ Executing("StepWaitForAllocation") => application # <<>>
    /\ Executing("StepCreateImage") => application # <<>>
    /\ Executing("StepSetupSSH") => application_resource # <<>>
    /\ Executing("StepConnectSSH") => (ssh_host # <<>> /\ host.ok)

\* StepCreateImage.Run starts: the client, the application and everything the earlier
\* steps stored are in the bag
C29_Witness ==
    /\ Running("StepCreateImage")
    /\ api_client
    /\ selected_label # <<>>
    /\ application # <<>>
    /\ application_resource # <<>>
    /\ ssh_host # <<>>

\* the steps this plugin defines
PluginSteps == {"StepCleanup", "StepConnectAPI", "StepFindLabel", "StepCreateApplication",
                "StepWaitForAllocation", "StepSetupSSH", "StepCreateImage"}

\* a step of the plugin returns with this step of the run
PluginStepReturns ==
    /\ \E name \in PluginSteps : Executing(name)
    /\ pc' \in {"loop", "unwind"}

\* C30: a step of the plugin that returns ActionHalt has written the error slot before
\* it returns, one that returns ActionContinue has not written it; so Run returns no
\* artifact when one of these steps halted.
C30_HaltMeansError ==
    /\ [][(PluginStepReturns /\ halted' /\ ~halted)
              => (error' # NoError /\ error' # error)]_vars
    /\ [][(PluginStepReturns /\ pc' = "loop") => error' = error]_vars
    /\ [][(PluginStepReturns /\ error' # error) => (halted' \/ cancelMark)]_vars
    /\ []((halted /\ ran[Len(ran)] \in PluginSteps) => error # NoError)
    /\ []((result # <<>> /\ halted /\ ran[Len(ran)] \in PluginSteps)
              => (result[1].artifact = <<>> /\ result[1].err # NoError))

\* StepCreateImage halted at its timeout and Run returned the error and no artifact
C30_Witness ==
    /\ result # <<>>
    /\ halted
    /\ ran[Len(ran)] = "StepCreateImage"
    /\ error = "image creation timeout"
    /\ result[1].artifact = <<>>

----------------------------------------------------------------------------
(* What a halting step leaves in the bag *)

\* a step of the plugin returns ActionHalt with this step of the run: it writes the
\* error slot (C30)
PluginStepHalts ==
    /\ \E name \in PluginSteps : Executing(name)
    /\ error' # error

\* C31: a step whose Run ends in ActionHalt leaves every slot of the bag but "error" as
\* it was: no client, label, application, resource, ssh host or port or image result is
\* stored and no key is added to the generated data.
C31_HaltWritesErrorOnly ==
    [][PluginStepHalts
          => /\ pc' = "unwind"
             /\ api_client' = api_client
             /\ selected_label' = selected_label
             /\ application' = application
             /\ application_resource' = application_resource
             /\ ssh_host' = ssh_host
             /\ ssh_port' = ssh_port
             /\ image_results' = image_results
             /\ generated_data' = generated_data]_vars

\* StepWaitForAllocation halted on a failed resource lookup and stored no resource
C31_Witness ==
    /\ halted
    /\ ran[Len(ran)] = "StepWaitForAllocation"
    /\ error = "failed to get application resource"
    /\ application # <<>>
    /\ application_resource = <<>>
    /\ DOMAIN generated_data = {"ApplicationUID"}

----------------------------------------------------------------------------
(* The generated data and the slots of the bag *)

Published(k) == k \in DOMAIN generated_data

\* C32: the generated data agree with the slots at every point of the run: ApplicationUID
\* is there exactly when an application is stored and is its UID, ResourceUID exactly when
\* a resource is stored and is its UID, SSHHost and SSHPort exactly when ssh_host and
\* ssh_port are stored and are their values; a key once written is neither removed nor
\* changed.
C32_GeneratedDataAgrees ==
    /\ [](/\ Published("ApplicationUID") <=> application # <<>>
          /\ Published("ApplicationUID")
                 => generated_data["ApplicationUID"] = application[1].UID
          /\ Published("ResourceUID") <=> application_resource # <<>>
          /\ Published("ResourceUID")
                 => generated_data["ResourceUID"] = application_resource[1].UID
          /\ Published("SSHHost") <=> ssh_host # <<>>
          /\ Published("SSHPort") <=> ssh_port # <<>>
          /\ Published("SSHHost") <=> Published("SSHPort")
          /\ Published("SSHHost")
                 => /\ generated_data["SSHHost"] = ssh_host[1]
                    /\ generated_data["SSHPort"] = Itoa(ssh_port[1])
          /\ DOMAIN generated_data \subseteq OutputKeys)
    /\ [][\A k \in DOMAIN generated_data :
              k \in DOMAIN generated_data' /\ generated_data'[k] = generated_data[k]]_vars

\* the four keys are published and agree with the four slots
C32_Witness ==
    /\ DOMAIN generated_data = {"ApplicationUID", "ResourceUID", "SSHHost", "SSHPort"}
    /\ generated_data["ApplicationUID"] = application[1].UID
    /\ generated_data["ResourceUID"] = application_resource[1].UID
    /\ generated_data["SSHHost"] = ssh_host[1]
    /\ generated_data["SSHPort"] = Itoa(ssh_port[1])
    /\ ssh_port[1] = 22

----------------------------------------------------------------------------
(* Termination *)

\* C33: with tickers that fire, deadlines that elapse and calls that return, every
\* polling loop (StepWaitForAllocation, StepSetupSSH, StepCreateImage, StepCleanup's wait
\* for the deallocation) is left, the cleanups are all called and return, and Run returns:
\* the build reaches the position where Run has returned, which is past every loop, with
\* one cleanup done for each step that ran (or Prepare has rejected the configuration).
C33_RunTerminates ==
    <>(\/ pc = "rejected"
       \/ /\ pc = "returned"
          /\ result # <<>>
          /\ Len(cleaned) = Len(ran))

\* Run returned after the polling loops of the legacy steps and StepCleanup's wait, which
\* ended at its timeout
C33_Witness ==
    /\ pc = "returned"
    /\ gen = "legacy"
    /\ Len(ran) = Len(Steps)
    /\ Len(cleaned) = Len(ran)
    /\ image_results # <<>>
    /\ cleanupLog = "timeout"

----------------------------------------------------------------------------
(* StepCleanup.Cleanup: the wait for the deallocation *)

\* the step of the run is a poll of Cleanup's loop
CleanupPolled ==
    /\ pc = "dealloc"
    /\ response' # <<>>
    /\ response'.by = "StepCleanup"
    /\ response'.call = "GetApplicationState"

\* the step of the run is Cleanup's deallocation request
DeallocationRequested ==
    /\ response' # <<>>
    /\ response'.by = "StepCleanup"
    /\ response'.call = "DeallocateApplication"

\* C34: after a deallocation request that succeeded, Cleanup's loop ends at the first poll
\* that sees DEALLOCATED, RECALLED or ERROR, at the first poll whose call fails, or at
\* its timeout, and goes on through every other status; after a deallocation request
\* that failed Cleanup returns without a poll.
C34_CleanupPolling ==
    /\ [][CleanupPolled
              => IF response'.err \/ response'.status \in {"DEALLOCATED", "RECALLED", "ERROR"}
                 THEN /\ pc' = "unwind"
                      /\ cleaned' = Append(cleaned, "StepCleanup")
                 ELSE /\ pc' = "dealloc"
                      /\ cleaned' = cleaned
                      /\ cleanupPolls' = cleanupPolls + 1]_vars
    /\ [][(pc = "dealloc" /\ pc' # "dealloc")
              => (CleanupPolled \/ (response' = <<>> /\ cleanupLog' = "timeout"))]_vars
    /\ [][DeallocationRequested
              => IF response'.err
                 THEN /\ pc' = "unwind"
                      /\ cleaned' = Append(cleaned, "StepCleanup")
                      /\ cleanupPolls' = 0
                 ELSE pc' = "dealloc" /\ cleaned' = cleaned]_vars
    /\ [][(pc # "dealloc" /\ pc' = "dealloc")
              => (DeallocationRequested /\ ~response'.err)]_vars
    /\ [](pc = "dealloc" => deallocReqs # <<>>)

\* the loop went on after a poll that saw the application still ALLOCATED
C34_Witness ==
    /\ pc = "dealloc"
    /\ cleanupPolls = 1
    /\ response # <<>>
    /\ response.by = "StepCleanup"
    /\ response.call = "GetApplicationState"
    /\ response.status = "ALLOCATED"

\* the loop ended at a poll that saw ERROR
C34_WitnessError ==
    /\ pc = "unwind"
    /\ cleanupLog = "error_state"
    /\ response # <<>>
    /\ response.by = "StepCleanup"
    /\ response.call = "GetApplicationState"
    /\ response.status = "ERROR"

----------------------------------------------------------------------------
(* StepFindLabel: what it stores *)

\* StepFindLabel.Run has just returned after a GetLabels call that succeeded
LabelsAnswered ==
    /\ response # <<>>
    /\ response.by = "StepFindLabel"
    /\ ~response.err

\* C35: StepFindLabel halts with an error when GetLabels returns no label and when the
\* selected label has no definitions; it stores a label only when it returns
\* ActionContinue, and a stored label is one of the returned labels and has at least one
\* definition.
C35_StoredLabelIsUsable ==
    /\ []((LabelsAnswered /\ response.labels = <<>>)
              => (error = "label not found" /\ selected_label = <<>>
                    /\ (halted \/ cancelMark)))
    /\ []((LabelsAnswered /\ error = "label has no definitions")
              => (selected_label = <<>> /\ (halted \/ cancelMark)))
    /\ []((LabelsAnswered /\ selected_label # <<>>)
              => /\ \E i \in 1..Len(response.labels) : response.labels[i] = selected_label[1]
                 /\ error = NoError
                 /\ pc = "loop" \/ cancelMark)
    /\ [](selected_label # <<>> => selected_label[1].NDefs >= 1)
    /\ [][selected_label' # selected_label
              => /\ Running("StepFindLabel")
                 /\ selected_label = <<>>
                 /\ error' = error
                 /\ pc' = "loop" \/ cancelMark]_vars

\* the label selected from the returned list has no definitions and the step halted
C35_Witness ==
    /\ LabelsAnswered
    /\ response.labels = <<Label(1, 1), Label(MaxVersion, 0)>>
    /\ config.LabelVersion = <<>>
    /\ error = "label has no definitions"
    /\ selected_label = <<>>
    /\ halted

\* GetLabels returned no label and the step halted
C35_WitnessNoLabels ==
    /\ LabelsAnswered
    /\ response.labels = <<>>
    /\ error = "label not found"
    /\ halted

\* C36: when the configured version is not an integer, StepFindLabel halts with an error
\* and stores no label, whatever GetLabels returns.
C36_InvalidVersionHalts ==
    /\ [](~Atoi(config.LabelVersion).ok /\ config.LabelVersion # <<>>
              => selected_label = <<>>)
    /\ [][(Running("StepFindLabel") /\ config.LabelVersion # <<>>
               /\ ~Atoi(config.LabelVersion).ok /\ pc' # "run")
              => /\ error' # NoError
                 /\ error' # error
                 /\ pc' = "unwind"
                 /\ halted' \/ cancelMark
                 /\ selected_label' = <<>>]_vars

\* version "x" was configured, GetLabels returned labels, and the step halted on the
\* version
C36_Witness ==
    /\ LabelsAnswered
    /\ response.labels # <<>>
    /\ config.LabelVersion = <<"x">>
    /\ error = "invalid version format"
    /\ selected_label = <<>>
    /\ halted

----------------------------------------------------------------------------
(* StepCreateApplication: the request *)

InjectedKeys == {"PACKER_BUILD", "PACKER_BUILDER", "PACKER_BUILD_TIME"}

\* C37: the application StepCreateApplication asks for carries the UID of the selected
\* label, and its metadata hold every key and value of the template's
\* application_metadata together with PACKER_BUILD, PACKER_BUILDER and PACKER_BUILD_TIME;
\* where the template uses one of these three names, the step's value is the one sent.
C37_ApplicationRequest ==
    (response # <<>> /\ response.by = "StepCreateApplication")
        => LET sent == response.request.Metadata
               user == response.userMetadata
           IN  /\ response.request.LabelUID = selected_label[1].UID
               /\ DOMAIN sent = DOMAIN user \cup InjectedKeys
               /\ \A k \in DOMAIN user \ InjectedKeys : sent[k] = user[k]
               /\ sent["PACKER_BUILD"] = "true"
               /\ sent["PACKER_BUILDER"] = "aquarium"
               /\ sent["PACKER_BUILD_TIME"] = response.now

\* the template names PACKER_BUILDER itself and a key of its own; the request kept the
\* key and carries the step's PACKER_BUILDER
C37_Witness ==
    /\ response # <<>>
    /\ response.by = "StepCreateApplication"
    /\ response.userMetadata = [PACKER_BUILDER |-> "mine", team |-> "qa"]
    /\ response.request.Metadata["PACKER_BUILDER"] = "aquarium"
    /\ response.request.Metadata["team"] = "qa"
    /\ ~response.err
    /\ application # <<>>

----------------------------------------------------------------------------
(* StepConnectAPI: the probe and the subscription *)

\* the probe of StepConnectAPI did not succeed
ProbeFailed == error \in CallErrors["StepConnectAPI"]

\* C38: the client is put into the bag only by a StepConnectAPI whose probe of the current
\* user succeeded; when the probe fails the step halts with its error, the client is not
\* in the bag, and the run makes no remote request after it: no label listing, no
\* application, no poll, no task and no deallocation.
C38_ClientOnlyAfterProbe ==
    /\ [][(api_client' # api_client)
              => /\ response'.by = "StepConnectAPI"
                 /\ response'.probe = "ok"
                 /\ api_client']_vars
    /\ [](ProbeFailed
              => /\ ~api_client
                 /\ halted \/ cancelMark
                 /\ ~ForwardProgress
                 /\ response # <<>> => response.by = "StepConnectAPI"
                 /\ createReqs = 0
                 /\ deallocReqs = <<>>
                 /\ cleanupPolls = 0
                 /\ waitPolls = 0
                 /\ imagePolls = 0
                 /\ taskReqs = <<>>)

\* the probe was answered 401, the run has unwound through StepCleanup and returned
C38_Witness ==
    /\ error = "authentication failed"
    /\ pc = "returned"
    /\ halted
    /\ cleaned = <<"StepConnectAPI", "StepCleanup">>
    /\ ~api_client
    /\ deallocReqs = <<>>

\* a probe that succeeded after the context was cancelled: the REST client's request
\* takes no context
C38_WitnessStored ==
    /\ response # <<>>
    /\ response.by = "StepConnectAPI"
    /\ response.probe = "ok"
    /\ api_client
    /\ ctxDone

\* StepConnectAPI's Run ends with this step, its probe having succeeded
ConnectsAfterProbe ==
    /\ Executing("StepConnectAPI")
    /\ response' # <<>>
    /\ response'.by = "StepConnectAPI"
    /\ response'.probe = "ok"

C39_WitnessOpened ==
    /\ response # <<>>
    /\ response.by = "StepConnectAPI"
    /\ response.subscribed
    /\ pc = "loop"

----------------------------------------------------------------------------
(* StepSetupSSH: the communicator's settings *)

\* the single-request StepSetupSSH ends with this step, its access request answered
SetupSSHAnswered ==
    /\ Executing("StepSetupSSH")
    /\ gen = "v2"
    /\ response' # <<>>
    /\ ~response'.err

C40_WitnessReplaced ==
    /\ response # <<>>
    /\ response.by = "StepSetupSSH"
    /\ gen = "v2"
    /\ response.access # <<>>
    /\ response.access[1].Username = "root"
    /\ response.access[1].Password = ""
    /\ config.SSHUsername = "root"
    /\ config.SSHPassword = "secret"
    /\ config.SSHPrivateKey = <<"c">>
    /\ config.SSHPort = 2
    /\ pc = "loop"

====
